---- MODULE Spec2Model ----
(***************************************************************************)
(* AccessiCommand: binding dispatch, key state, engine lifecycle and the   *)
(* facial hysteresis debouncer, modelled from src/accessicommand.          *)
(*                                                                         *)
(* The specifications share the variables:                                 *)
(*   SpecDispatch   one caller drives Engine.handle_event over every       *)
(*                  binding list up to MaxBindings;                        *)
(*   Spec           the engine with its GUI thread and worker threads      *)
(*                  (main processing loop, voice listener);                *)
(*   SpecFace       FacialDetector's per-frame state update;               *)
(*   SpecBlink      its blink events, with the time between frames;        *)
(*   SpecDetectors  sessions (start, frames, stop) of a FacialDetector     *)
(*                  and a HandDetector;                                    *)
(*   SpecHand       a HandDetector alone, its frames and events observed;  *)
(*   SpecDevice     the detector loops when camera or microphone go away;  *)
(*   SpecVoice      VoiceDetector's handling of one utterance after the    *)
(*                  other;                                                 *)
(*   SpecRatio      the ratio helpers of every copy of the facial code;    *)
(*   SpecController the key-set facial controller script and its keyboard; *)
(*   SpecChain      the key_held facial controller script and its priority *)
(*                  chain of key branches;                                 *)
(*   SpecConfig     the main window, the configuration dialog, config.json *)
(*                  and the engine they start, stop and reload.            *)
(***************************************************************************)
EXTENDS Integers, Sequences, FiniteSets, TLC

VARIABLES
    bindings,          \* Engine.bindings: the list of binding dicts
    is_running,        \* Engine.is_running
    os_calls,          \* per key: the last CallWindow pyautogui keyDown/keyUp calls
    ran,               \* action ids whose function the latest handle_event call ran
    last_ev,           \* <<type, data>> of the latest handle_event call
    sustained,         \* sustained signals whose START was dispatched after their STOP
    config_bindings,   \* Engine.config_manager.config_data["bindings"]
    detectors,         \* keys of Engine.detectors
    det_on,            \* detectors whose flag is set: VoiceDetector.running, HandDetector.is_active
    threads,           \* the worker threads: main processing loops and voice listeners
    main_loop_thread,  \* Engine.main_loop_thread: a thread id, or 0 for None
    guiPc,             \* where the GUI thread is inside Engine.stop / reload_configuration
    guiCall,           \* the entry point the GUI thread called last
    fd,                \* the fields of a FacialDetector, or None
    watch,             \* the signal whose raw input is recorded: a sustained facial
                       \* signal, "BLINK", or "HAND" for the gestures of the hand
    seen_true,         \* raw-true frames of the watched signal since start(), up to T
    run,               \* +n: the last n frames were raw-true; -n: raw-false; up to T
    run_from_stable,   \* the watched signal was stable when the current run began
    face_events,       \* the observed events the latest frame handed to the event handler
    blink_obs,         \* per blink event: the time since it was last emitted, the time
                       \* between its last two emissions, what the eye did last, and
                       \* what its current closure began with and has emitted
    noface_run,        \* the last n frames had no face; up to MaxConsec
    last_edge,         \* the START or STOP of the watched signal emitted last since
                       \* start(), or None
    hd,                \* the fields of a HandDetector, or None
    hand_events,       \* the events the latest process_frame handed to the event handler
    hand_obs,          \* what the latest frames showed the HandDetector, the stable
                       \* gesture before the latest frame, and the event emitted last
    stale_at_start,    \* per detector: its debouncer state was not the initial one
                       \* when the start() that has just returned was called
    vd,                \* the fields of a VoiceDetector, or None
    dev,               \* the capture devices, FacialDetector.cap, and where the loop
                       \* threads of the two detectors stand, or None
    voice_obs,         \* what the latest _process_speech call was given and what it
                       \* handed to the event handler, or None
    fc,                \* the globals of a facial controller script and the keyboard
                       \* it drives, or None
    geo,               \* the landmark distances handed to the ratio helpers and what
                       \* each copy of them returned, or None
    gui                \* the main window's buttons, its ConfigManager, config.json
                       \* and the configuration dialog, or None

dispatchVars == <<bindings, is_running, os_calls, ran, last_ev, sustained>>

engineVars == <<config_bindings, detectors, det_on, threads, main_loop_thread, guiPc, guiCall>>

engineVarsButThreads ==
    <<config_bindings, detectors, det_on, main_loop_thread, guiPc, guiCall>>

faceVars ==
    <<fd, watch, seen_true, run, run_from_stable, face_events, blink_obs, noface_run,
      last_edge>>

handVars == <<hd, hand_events, hand_obs>>

deviceVars == <<vd, dev>>

standaloneVars == <<voice_obs, fc, geo, gui>>

detectorVars == <<faceVars, handVars, stale_at_start, deviceVars, standaloneVars>>

vars == <<dispatchVars, engineVars, detectorVars>>

----------------------------------------------------------------------------
(* Bounds                                                                  *)

MaxBindings == 3       \* longest binding list drawn in SpecDispatch
CallWindow == 2        \* OS calls remembered per key
MaxThreads == 3        \* worker threads alive at the same time in Spec
MaxConsec == 3         \* largest consec-frames threshold a FacialDetector is built with

----------------------------------------------------------------------------
(* Python values                                                           *)

None == "<None>"

\* Python truthiness of an action_id read with dict.get: None and "" are falsy.
Truthy(a) == a \notin {None, ""}

\* dict.get(key, default) on a binding; a key may be absent from the dict.
Get(b, k, default) == IF k \in DOMAIN b THEN b[k] ELSE default

Min(S) == CHOOSE x \in S : \A y \in S : x <= y

\* str.lower() on the vocabulary of the model.
Lower(s) ==
    CASE s = "MOUTH_OPEN_START" -> "mouth_open_start"
      [] s = "Mouth_Open_Start" -> "mouth_open_start"
      [] s = "MOUTH_OPEN_STOP" -> "mouth_open_stop"
      [] s = "EYEBROWS_RAISED_START" -> "eyebrows_raised_start"
      [] s = "EYEBROWS_RAISED_STOP" -> "eyebrows_raised_stop"
      [] s = "LEFT_BLINK" -> "left_blink"
      [] s = "FIST" -> "fist"
      [] s = "OPEN_PALM" -> "open_palm"
      [] s = "HAND_GESTURE_NONE" -> "hand_gesture_none"
      [] s = "Go" -> "go"
      [] s = "Stop" -> "stop"
      [] s = "Face" -> "face"
      [] s = "FACE" -> "face"
      [] s = "Voice" -> "voice"
      [] OTHER -> s

----------------------------------------------------------------------------
(* actions/system_actions.py and actions/registry.py                       *)

Keys == {"a", "j"}

\* The part of ACTION_REGISTRY the model uses: id -> <<function, key>>.
ACTION_REGISTRY ==
    ("PRESS_A" :> <<"press_key", "a">>) @@
    ("PRESS_J" :> <<"press_key", "j">>) @@
    ("PRESS_A_DOWN" :> <<"key_down", "a">>) @@
    ("PRESS_J_DOWN" :> <<"key_down", "j">>) @@
    ("PRESS_A_UP" :> <<"key_up", "a">>) @@
    ("PRESS_J_UP" :> <<"key_up", "j">>)

NoFunc == <<"None", "None">>

get_action_function_any(action_id) ==
    IF action_id \in DOMAIN ACTION_REGISTRY THEN ACTION_REGISTRY[action_id]
    ELSE <<"press_key", "j">>

\* ACTION_REGISTRY.get(action_id): the function, or None.
get_action_function(action_id) ==
    IF action_id \in DOMAIN ACTION_REGISTRY THEN ACTION_REGISTRY[action_id]
    ELSE NoFunc

\* One more call in a key's window of the last CallWindow calls.
AppendCall(tr, c) ==
    IF Len(tr) < CallWindow THEN Append(tr, c) ELSE Append(Tail(tr), c)

\* pyautogui.keyDown(key_name)
key_down(calls, k) == [calls EXCEPT ![k] = AppendCall(@, "down")]

\* pyautogui.keyUp(key_name)
key_up(calls, k) == [calls EXCEPT ![k] = AppendCall(@, "up")]

\* pyautogui.press(key_name): a keyDown followed by a keyUp.
press_key(calls, k) == key_up(key_down(calls, k), k)

\* Calling the function get_action_function returned.
CallAction(calls, fn) ==
    CASE fn[1] = "key_down" -> key_down(calls, fn[2])
      [] fn[1] = "key_up" -> key_up(calls, fn[2])
      [] fn[1] = "press_key" -> press_key(calls, fn[2])
      [] OTHER -> calls

\* The key is physically down: the last call issued for it is a keyDown.
Held(calls, k) == calls[k] # <<>> /\ calls[k][Len(calls[k])] = "down"

HeldKeys(calls) == {k \in Keys : Held(calls, k)}

----------------------------------------------------------------------------
(* Engine.handle_event: the binding scan                                   *)

MatchesNoLower(binding, detector_type, event_key) ==
    /\ Get(binding, "trigger_type", None) = detector_type
    /\ Get(binding, "trigger_event", "") = event_key

\* engine.py line 164: the type compared as it is, the event lower-cased.
Matches(binding, detector_type, event_key) ==
    /\ Get(binding, "trigger_type", None) = detector_type
    /\ Lower(Get(binding, "trigger_event", "")) = event_key

RECURSIVE ScanFrom(_, _, _, _, _)
\* The for loop of lines 163-167 from binding i on; cur is action_id_to_execute.
ScanFrom(bs, i, detector_type, event_key, cur) ==
    IF i > Len(bs) THEN cur
    ELSE IF Matches(bs[i], detector_type, event_key)
         THEN LET a == Get(bs[i], "action_id", None)
              IN IF Truthy(a) THEN a
                 ELSE ScanFrom(bs, i + 1, detector_type, event_key, a)
         ELSE ScanFrom(bs, i + 1, detector_type, event_key, cur)

RECURSIVE ScanBreakAlways(_, _, _, _, _)
ScanBreakAlways(bs, i, detector_type, event_key, cur) ==
    IF i > Len(bs) THEN cur
    ELSE IF Matches(bs[i], detector_type, event_key)
         THEN Get(bs[i], "action_id", None)
         ELSE ScanBreakAlways(bs, i + 1, detector_type, event_key, cur)

ScanBindingsFirstMatch(bs, detector_type, event_data) ==
    ScanBreakAlways(bs, 1, detector_type, Lower(event_data), None)

\* action_id_to_execute after the loop, for handle_event(detector_type, event_data).
ScanBindings(bs, detector_type, event_data) ==
    ScanFrom(bs, 1, detector_type, Lower(event_data), None)

\* Lines 168-173: the ids whose function is called for action_id_to_execute.
ActionsRun(action_id) ==
    IF Truthy(action_id) /\ get_action_function(action_id) # NoFunc
    THEN <<action_id>> ELSE <<>>

\* The OS calls after lines 168-173.
CallsAfter(calls, action_id) ==
    IF Truthy(action_id) THEN CallAction(calls, get_action_function(action_id))
    ELSE calls

----------------------------------------------------------------------------
(* Sustained signals (facial_detector.py lines 33-43)                      *)

NoEvent == <<"<None>", "<None>">>

StartEvents == {"MOUTH_OPEN_START", "EYEBROWS_RAISED_START"}
StopEvents == {"MOUTH_OPEN_STOP", "EYEBROWS_RAISED_STOP"}

SignalOf(ev) ==
    CASE ev \in {"MOUTH_OPEN_START", "MOUTH_OPEN_STOP"} -> "MOUTH_OPEN"
      [] ev \in {"EYEBROWS_RAISED_START", "EYEBROWS_RAISED_STOP"} -> "EYEBROWS_RAISED"
      [] OTHER -> "<None>"

StartOf(sig) == IF sig = "MOUTH_OPEN" THEN "MOUTH_OPEN_START" ELSE "EYEBROWS_RAISED_START"
StopOf(sig) == IF sig = "MOUTH_OPEN" THEN "MOUTH_OPEN_STOP" ELSE "EYEBROWS_RAISED_STOP"

Signals == {"MOUTH_OPEN", "EYEBROWS_RAISED"}

\* The signals active once the event has been dispatched.
SustainedAfter(act, ev) ==
    IF ev \in StartEvents THEN act \cup {SignalOf(ev)}
    ELSE IF ev \in StopEvents THEN act \ {SignalOf(ev)}
    ELSE act

----------------------------------------------------------------------------
(* SpecDispatch: one caller, every binding list up to MaxBindings          *)

BindingPool == {
    [trigger_type |-> "face", trigger_event |-> "MOUTH_OPEN_START", action_id |-> "PRESS_J_DOWN"],
    [trigger_type |-> "face", trigger_event |-> "mouth_open_start", action_id |-> "PRESS_A_DOWN"],
    [trigger_type |-> "face", trigger_event |-> "MOUTH_OPEN_START", action_id |-> ""],
    [trigger_type |-> "face", trigger_event |-> "Mouth_Open_Start"],
    [trigger_type |-> "Face", trigger_event |-> "MOUTH_OPEN_START", action_id |-> "PRESS_J"],
    [trigger_type |-> "face", trigger_event |-> "MOUTH_OPEN_START", action_id |-> "NO_SUCH_ACTION"],
    [trigger_type |-> "face", trigger_event |-> "MOUTH_OPEN_STOP", action_id |-> "PRESS_J_UP"],
    [trigger_type |-> "face", trigger_event |-> "EYEBROWS_RAISED_START", action_id |-> "PRESS_J_DOWN"],
    [trigger_type |-> "face", trigger_event |-> "EYEBROWS_RAISED_STOP", action_id |-> "PRESS_J_UP"]
}

\* A configuration in which two sustained signals hold and release the same key.
ConfigSharedKey == <<
    [trigger_type |-> "face", trigger_event |-> "MOUTH_OPEN_START", action_id |-> "PRESS_J_DOWN"],
    [trigger_type |-> "face", trigger_event |-> "MOUTH_OPEN_STOP", action_id |-> "PRESS_J_UP"],
    [trigger_type |-> "face", trigger_event |-> "EYEBROWS_RAISED_START", action_id |-> "PRESS_J_DOWN"],
    [trigger_type |-> "face", trigger_event |-> "EYEBROWS_RAISED_STOP", action_id |-> "PRESS_J_UP"]
>>

BindingLists ==
    UNION {[1..n -> BindingPool] : n \in 0..MaxBindings} \cup {ConfigSharedKey}

\* The events the caller delivers: <<detector_type, event_data>>.
EventPool == {
    <<"face", "MOUTH_OPEN_START">>,
    <<"face", "MOUTH_OPEN_STOP">>,
    <<"face", "EYEBROWS_RAISED_START">>,
    <<"face", "EYEBROWS_RAISED_STOP">>,
    <<"face", "LEFT_BLINK">>
}

NoCalls == [k \in Keys |-> <<>>]

Threads == 1..MaxThreads

NoThread == [kind |-> "none", pc |-> "dead", stale |-> FALSE, ev |-> NoEvent]

\* _initialize_detectors: a detector is created for each type some binding names.
DetectorsNeeded(bs) ==
    {d \in {"voice", "face", "hand"} :
        \E i \in 1..Len(bs) : Get(bs[i], "trigger_type", None) = d}

\* Engine.__init__ for the configuration bs: nothing started yet.
EngineConstructed(bs) ==
    /\ config_bindings = bs
    /\ bindings = bs
    /\ detectors = DetectorsNeeded(bs)
    /\ det_on = {}
    /\ threads = [t \in Threads |-> NoThread]
    /\ main_loop_thread = 0
    /\ is_running = FALSE
    /\ guiPc = "idle"
    /\ guiCall = "none"

\* No FacialDetector has been created.
NotStale == [face |-> FALSE, hand |-> FALSE]

\* Camera and microphone available, no capture opened, both loop threads at the
\* head of their loop, no failed attempt counted.
DevicesReady ==
    [camera |-> TRUE, cap_opened |-> FALSE, microphone |-> TRUE,
     face_pc |-> "head", voice_pc |-> "head", face_retries |-> 0, voice_retries |-> 0]

StandaloneAbsent ==
    /\ voice_obs = None
    /\ fc = None
    /\ geo = None
    /\ gui = None

\* No frame handed to a HandDetector yet, no hand event emitted yet.
NoHandSeen ==
    [run_gesture |-> "<None>", run_len |-> 0, stable_before |-> "<None>",
     after_noise |-> "<None>", last_emitted |-> "<None>", emitted_before |-> "<None>",
     session_events |-> 0]

FaceAbsent ==
    /\ StandaloneAbsent
    /\ fd = None
    /\ watch = None
    /\ seen_true = 0
    /\ run = 0
    /\ run_from_stable = FALSE
    /\ face_events = <<>>
    /\ blink_obs = None
    /\ noface_run = 0
    /\ last_edge = None
    /\ hd = None
    /\ hand_events = <<>>
    /\ hand_obs = NoHandSeen
    /\ stale_at_start = NotStale
    /\ vd = None
    /\ dev = None

InitDispatch ==
    /\ \E bs \in BindingLists : EngineConstructed(bs)
    /\ FaceAbsent
    /\ os_calls = NoCalls
    /\ ran = <<>>
    /\ last_ev = NoEvent
    /\ sustained = {}

\* Engine.handle_event(detector_type, event_data), run to its return.
handle_event(detector_type, event_data) ==
    /\ last_ev' = <<detector_type, event_data>>
    /\ IF ~is_running
       THEN /\ ran' = <<>>
            /\ UNCHANGED <<os_calls, sustained>>
       ELSE LET action_id_to_execute == ScanBindings(bindings, detector_type, event_data)
            IN /\ ran' = ActionsRun(action_id_to_execute)
               /\ os_calls' = CallsAfter(os_calls, action_id_to_execute)
               /\ sustained' = SustainedAfter(sustained, event_data)
    /\ UNCHANGED <<bindings, is_running, engineVars, detectorVars>>

\* Engine.start() as the caller sees it: is_running set (line 279).
SeqStart ==
    /\ ~is_running
    /\ is_running' = TRUE
    /\ ran' = <<>> /\ last_ev' = NoEvent
    /\ UNCHANGED <<bindings, os_calls, sustained, engineVars, detectorVars>>

\* Engine.stop() as the caller sees it: is_running cleared (line 298); no key call.
SeqStop ==
    /\ is_running
    /\ is_running' = FALSE
    /\ ran' = <<>> /\ last_ev' = NoEvent
    /\ UNCHANGED <<bindings, os_calls, sustained, engineVars, detectorVars>>

DeliverEvent == \E e \in EventPool : handle_event(e[1], e[2])

NextDispatch == DeliverEvent \/ SeqStart \/ SeqStop

SpecDispatch == InitDispatch /\ [][NextDispatch]_vars

----------------------------------------------------------------------------
(* Claims checked under SpecDispatch                                       *)

Handled == last_ev # NoEvent /\ is_running

\* Bindings whose type equals the event's type as written and whose event equals
\* the event's name once both are lower-cased.
ExactTypeMatches(bs, ev) ==
    {i \in 1..Len(bs) :
        /\ "trigger_type" \in DOMAIN bs[i] /\ bs[i].trigger_type = ev[1]
        /\ "trigger_event" \in DOMAIN bs[i]
        /\ Lower(bs[i].trigger_event) = Lower(ev[2])}

\* Bindings that match when both fields are compared ignoring case.
IgnoreCaseMatches(bs, ev) ==
    {i \in 1..Len(bs) :
        /\ "trigger_type" \in DOMAIN bs[i] /\ Lower(bs[i].trigger_type) = Lower(ev[1])
        /\ "trigger_event" \in DOMAIN bs[i]
        /\ Lower(bs[i].trigger_event) = Lower(ev[2])}

HasActionId(b) == "action_id" \in DOMAIN b /\ b.action_id # ""

Registered(a) == a \in DOMAIN ACTION_REGISTRY

\* What runs when binding b is the one chosen.
RunsOf(b) == IF HasActionId(b) /\ Registered(b.action_id) THEN <<b.action_id>> ELSE <<>>

\* C2 (as claimed): the OS calls issued for one key alternate keyDown, keyUp,
\* keyDown, ...: no two equal calls follow each other and the first call is a keyDown.
C2_KeyCallsAlternate ==
    \A k \in Keys :
        /\ \A n \in 1..(Len(os_calls[k]) - 1) : os_calls[k][n] # os_calls[k][n + 1]
        /\ (os_calls[k] # <<>> /\ Len(os_calls[k]) < CallWindow) => os_calls[k][1] = "down"

\* Signal sig holds key k: its START is dispatched to key_down(k), its STOP to key_up(k).
BoundToKey(sig, k) ==
    /\ ActionsRun(ScanBindings(bindings, "face", StartOf(sig))) # <<>>
    /\ get_action_function(ScanBindings(bindings, "face", StartOf(sig))) = <<"key_down", k>>
    /\ ActionsRun(ScanBindings(bindings, "face", StopOf(sig))) # <<>>
    /\ get_action_function(ScanBindings(bindings, "face", StopOf(sig))) = <<"key_up", k>>

\* C3 (as claimed): while two sustained signals bound to the same key are both
\* active and the key is down, dispatching the STOP of one leaves the key down.
C3_SharedKeyStaysHeld ==
    [][\A s1 \in Signals, s2 \in Signals, k \in Keys :
          ( /\ s1 # s2 /\ s1 \in sustained /\ s2 \in sustained
            /\ BoundToKey(s1, k) /\ BoundToKey(s2, k)
            /\ Held(os_calls, k) /\ is_running
            /\ last_ev' = <<"face", StopOf(s1)>> )
          => Held(os_calls', k)]_vars

\* C4 (as claimed): the first binding in list order that matches decides, also
\* when its action_id is empty or missing; no later matching binding is used.
C4_FirstMatchDecides ==
    Handled =>
        LET M == ExactTypeMatches(bindings, last_ev)
        IN /\ Len(ran) <= 1
           /\ M # {} => ran = RunsOf(bindings[Min(M)])
           /\ M = {} => ran = <<>>

\* C4 (amended): the action executed is that of the first binding in list order
\* that matches and has a non-empty action_id; matching bindings without one are
\* passed over; at most one action is executed per event.
C4_FirstUsableMatchDecides ==
    Handled =>
        LET U == {i \in ExactTypeMatches(bindings, last_ev) : HasActionId(bindings[i])}
        IN /\ Len(ran) <= 1
           /\ U # {} => ran = RunsOf(bindings[Min(U)])
           /\ U = {} => ran = <<>>

\* C4 witness: the first matching binding has no action_id and the action of a
\* later matching binding has run.
C4_Witness ==
    /\ Handled
    /\ \E i \in ExactTypeMatches(bindings, last_ev), j \in ExactTypeMatches(bindings, last_ev) :
          /\ i = Min(ExactTypeMatches(bindings, last_ev)) /\ i < j
          /\ ~HasActionId(bindings[i])
          /\ HasActionId(bindings[j]) /\ ran = <<bindings[j].action_id>>

\* C5 (as claimed): a binding matches whenever type and event both equal the
\* event's ignoring case, so an event with such a binding (all of them carrying a
\* registered action) has an action executed.
C5_BothFieldsIgnoreCase ==
    Handled =>
        LET M == IgnoreCaseMatches(bindings, last_ev)
        IN (M # {} /\ \A i \in M : HasActionId(bindings[i]) /\ Registered(bindings[i].action_id))
           => ran # <<>>

\* C5 (amended): a binding matches exactly when its trigger_type equals the
\* event's type as written (case-sensitively) and its trigger_event equals the
\* event's name ignoring case.
C5_TypeExactEventIgnoreCase ==
    Handled =>
        LET M == ExactTypeMatches(bindings, last_ev)
        IN /\ ran # <<>> => \E i \in M : HasActionId(bindings[i]) /\ bindings[i].action_id = ran[1]
           /\ (M # {} /\ \A i \in M : HasActionId(bindings[i]) /\ Registered(bindings[i].action_id))
              => ran # <<>>

\* C5 witness: the action of a binding whose trigger_event differs from the
\* event's name in case has run, past a binding whose type differs only in case.
C5_Witness ==
    /\ Handled /\ ran # <<>>
    /\ \E i \in ExactTypeMatches(bindings, last_ev) :
          /\ bindings[i].trigger_event # last_ev[2]
          /\ HasActionId(bindings[i]) /\ ran = <<bindings[i].action_id>>
    /\ \E j \in IgnoreCaseMatches(bindings, last_ev) :
          /\ j \notin ExactTypeMatches(bindings, last_ev)
          /\ \A i \in ExactTypeMatches(bindings, last_ev) : j < i

\* C6: handle_event runs an action only for a matching binding whose action_id
\* is registered, at most once; when no binding matches or no matching binding
\* has a registered action_id nothing runs and no OS call is made; is_running
\* and the bindings are left as they were.
C6_UnboundOrUnregisteredDropped ==
    [][last_ev' # NoEvent =>
          LET M == ExactTypeMatches(bindings, last_ev')
          IN /\ Len(ran') <= 1
             /\ \A n \in 1..Len(ran') :
                   /\ Registered(ran'[n])
                   /\ \E i \in M : HasActionId(bindings[i]) /\ bindings[i].action_id = ran'[n]
             /\ (\A i \in M : ~(HasActionId(bindings[i]) /\ Registered(bindings[i].action_id)))
                => (ran' = <<>> /\ os_calls' = os_calls)
             /\ is_running' = is_running
             /\ bindings' = bindings]_vars

\* C6 witness: an event whose chosen binding names an unregistered action has
\* been handled by a running engine that had executed a key-down before.
C6_Witness ==
    /\ Handled /\ ran = <<>>
    /\ \E i \in ExactTypeMatches(bindings, last_ev) :
          /\ HasActionId(bindings[i]) /\ ~Registered(bindings[i].action_id)
          /\ \A j \in ExactTypeMatches(bindings, last_ev) : j < i => ~HasActionId(bindings[j])
    /\ HeldKeys(os_calls) # {}

----------------------------------------------------------------------------
(* Spec: the engine, its GUI thread and its worker threads                 *)

\* Configurations the engine is constructed with.
ConfigHandVoice == <<
    [trigger_type |-> "hand", trigger_event |-> "FIST", action_id |-> "PRESS_J_DOWN"],
    [trigger_type |-> "hand", trigger_event |-> "OPEN_PALM", action_id |-> "PRESS_J_UP"],
    [trigger_type |-> "voice", trigger_event |-> "Go", action_id |-> "PRESS_A"]
>>

ConfigHandOnly == <<
    [trigger_type |-> "hand", trigger_event |-> "FIST", action_id |-> "PRESS_J_DOWN"],
    [trigger_type |-> "hand", trigger_event |-> "OPEN_PALM", action_id |-> "PRESS_J_UP"]
>>

ConfigVoiceOnly == <<
    [trigger_type |-> "voice", trigger_event |-> "Go", action_id |-> "PRESS_A_DOWN"]
>>

ConfigEmpty == << >>

EngineConfigs == {ConfigHandVoice, ConfigHandOnly, ConfigVoiceOnly, ConfigEmpty}

\* The stable gestures HandDetector.process_frame hands to the event handler.
HandEvents == {"FIST", "OPEN_PALM", "HAND_GESTURE_NONE"}

\* The words VoiceDetector is given: the lower-cased events of the voice bindings.
system_trigger_words(bs) ==
    {Lower(bs[i].trigger_event) : i \in {j \in 1..Len(bs) :
        /\ Get(bs[j], "trigger_type", None) = "voice"
        /\ Truthy(Get(bs[j], "trigger_event", None))}}

\* Detector types that the main loop serves (visual_detectors_by_cam).
VisualTypes == {"face", "hand"}

Init ==
    /\ \E bs \in EngineConfigs : EngineConstructed(bs)
    /\ FaceAbsent
    /\ os_calls = NoCalls
    /\ ran = <<>>
    /\ last_ev = NoEvent
    /\ sustained = {}

FreeSlots == {t \in Threads : threads[t].pc = "dead"}

\* Engine.start() past its is_running guard: lines 279-294, with
\* VoiceDetector.start and HandDetector.start.
StartBody ==
    LET startVoice == "voice" \in detectors /\ "voice" \notin det_on
        startMain == detectors \cap VisualTypes # {}
        need == (IF startVoice THEN 1 ELSE 0) + (IF startMain THEN 1 ELSE 0)
        tv == Min(FreeSlots)
        tm == IF startVoice THEN Min(FreeSlots \ {tv}) ELSE Min(FreeSlots)
    IN /\ Cardinality(FreeSlots) >= need
       /\ is_running' = TRUE
       /\ det_on' = det_on \cup detectors
       /\ threads' = [t \in Threads |->
             IF startVoice /\ t = tv
             THEN [kind |-> "voice", pc |-> "listen", stale |-> FALSE, ev |-> NoEvent]
             ELSE IF startMain /\ t = tm
             THEN [kind |-> "main", pc |-> "open", stale |-> FALSE, ev |-> NoEvent]
             ELSE threads[t]]
       /\ main_loop_thread' = IF startMain THEN tm ELSE main_loop_thread

\* Engine.stop() from line 298 to the joins: is_running cleared,
\* VoiceDetector.stop clears running; the joins (timeouts 1.5 s and 2.0 s) follow.
StopHead ==
    /\ is_running' = FALSE
    /\ det_on' = det_on \ {"voice"}

\* AppGUI.start_engine: engine.start() unless the engine is running.
start_engine ==
    /\ guiPc = "idle"
    /\ ~is_running
    /\ StartBody
    /\ guiCall' = "start_engine"
    /\ UNCHANGED <<bindings, os_calls, ran, last_ev, sustained, detectorVars, config_bindings,
                   detectors, guiPc>>

\* AppGUI.stop_engine: engine.stop() only when engine.is_running, else a message.
stop_engine ==
    /\ guiPc = "idle"
    /\ guiCall' = "stop_engine"
    /\ IF is_running
       THEN /\ StopHead
            /\ guiPc' = "stop_join"
       ELSE UNCHANGED <<is_running, det_on, guiPc>>
    /\ UNCHANGED <<bindings, os_calls, ran, last_ev, sustained, detectorVars, config_bindings,
                   detectors, threads, main_loop_thread>>

\* Engine.stop() called directly: returns at once when not running and no detectors.
stop ==
    /\ guiPc = "idle"
    /\ guiCall' = "stop"
    /\ IF ~is_running /\ detectors = {}
       THEN UNCHANGED <<is_running, det_on, guiPc>>
       ELSE /\ StopHead
            /\ guiPc' = "stop_join"
    /\ UNCHANGED <<bindings, os_calls, ran, last_ev, sustained, detectorVars, config_bindings,
                   detectors, threads, main_loop_thread>>

\* Engine.reload_configuration(): its call of stop().
reload_configuration ==
    /\ guiPc = "idle"
    /\ guiCall' = "reload_configuration"
    /\ IF ~is_running /\ detectors = {}
       THEN /\ guiPc' = "reload_load"
            /\ UNCHANGED <<is_running, det_on>>
       ELSE /\ StopHead
            /\ guiPc' = "reload_join"
    /\ UNCHANGED <<bindings, os_calls, ran, last_ev, sustained, detectorVars, config_bindings,
                   detectors, threads, main_loop_thread>>

\* Engine.stop() from the end of its joins (each returns when the thread has
\* ended or the timeout has passed) to its return: lines 305-318.
StopTail ==
    /\ guiPc \in {"stop_join", "reload_join"}
    /\ main_loop_thread' = 0
    /\ det_on' = det_on \ VisualTypes
    /\ guiPc' = IF guiPc = "stop_join" THEN "idle" ELSE "reload_load"
    /\ UNCHANGED <<bindings, is_running, os_calls, ran, last_ev, sustained, detectorVars,
                   config_bindings, detectors, threads, guiCall>>

\* reload_configuration: _load_configuration() and _initialize_detectors().
ReloadLoad ==
    /\ guiPc = "reload_load"
    /\ bindings' = config_bindings
    /\ detectors' = DetectorsNeeded(config_bindings)
    /\ det_on' = {}
    /\ threads' = [t \in Threads |->
          IF threads[t].kind = "voice" THEN [threads[t] EXCEPT !.stale = TRUE]
          ELSE threads[t]]
    /\ guiPc' = "reload_start"
    /\ UNCHANGED <<is_running, os_calls, ran, last_ev, sustained, detectorVars, config_bindings,
                   main_loop_thread, guiCall>>

\* reload_configuration: its call of start().
ReloadStart ==
    /\ guiPc = "reload_start"
    /\ IF is_running
       THEN UNCHANGED <<is_running, det_on, threads, main_loop_thread>>
       ELSE StartBody
    /\ guiPc' = "idle"
    /\ UNCHANGED <<bindings, os_calls, ran, last_ev, sustained, detectorVars, config_bindings,
                   detectors, guiCall>>

\* The flag of the VoiceDetector instance that thread t belongs to.
VoiceRunning(t) == ~threads[t].stale /\ "voice" \in det_on

\* Engine.handle_event entered by thread t: line 160 returns when not running,
\* otherwise the thread goes on to the scan; back is where it returns to.
EnterHandler(t, detector_type, event_data, back) ==
    threads' = [threads EXCEPT ![t] =
        IF is_running
        THEN [@ EXCEPT !.pc = "handler", !.ev = <<detector_type, event_data>>]
        ELSE [@ EXCEPT !.pc = back]]

\* _run_main_loop lines 179-184: the cameras are opened, or none opens.
MainOpen(t) ==
    /\ threads[t].kind = "main" /\ threads[t].pc = "open"
    /\ \/ /\ threads' = [threads EXCEPT ![t].pc = "loop"]
          /\ UNCHANGED is_running
       \/ /\ threads' = [threads EXCEPT ![t] = NoThread]
          /\ is_running' = FALSE
    /\ UNCHANGED <<bindings, os_calls, ran, last_ev, sustained, detectorVars, engineVarsButThreads>>

\* Line 188: while self.is_running; when it is False the thread leaves the
\* loop for the finally block.
MainLoopCheck(t) ==
    /\ threads[t].kind = "main" /\ threads[t].pc = "loop"
    /\ IF is_running
       THEN threads' = [threads EXCEPT ![t].pc = "frame"]
       ELSE threads' = [threads EXCEPT ![t].pc = "finally"]
    /\ is_running' = is_running
    /\ UNCHANGED <<bindings, os_calls, ran, last_ev, sustained, detectorVars, engineVarsButThreads>>

\* Lines 189-212: one frame; an active hand detector may hand a stable gesture
\* to handle_event, otherwise the loop goes round.
MainFrame(t) ==
    /\ threads[t].kind = "main" /\ threads[t].pc = "frame"
    /\ \/ threads' = [threads EXCEPT ![t].pc = "loop"]
       \/ /\ "hand" \in detectors /\ "hand" \in det_on
          /\ \E g \in HandEvents : EnterHandler(t, "hand", g, "loop")
    /\ UNCHANGED <<bindings, is_running, os_calls, ran, last_ev, sustained, detectorVars,
                   engineVarsButThreads>>

\* Lines 261 and 267: the 'q' key clears is_running and breaks, an exception
\* leaves the loop with is_running as it is; both go on to the finally block.
MainLoopEnds(t) ==
    /\ threads[t].kind = "main" /\ threads[t].pc = "frame"
    /\ threads' = [threads EXCEPT ![t].pc = "finally"]
    /\ \/ is_running' = FALSE
       \/ is_running' = is_running
    /\ UNCHANGED <<bindings, os_calls, ran, last_ev, sustained, detectorVars, engineVarsButThreads>>

\* Lines 268-274, the finally block: the cameras are released, the windows
\* closed, then is_running is cleared and the thread ends.
MainFinally(t) ==
    /\ threads[t].kind = "main" /\ threads[t].pc = "finally"
    /\ threads' = [threads EXCEPT ![t] = NoThread]
    /\ is_running' = FALSE
    /\ UNCHANGED <<bindings, os_calls, ran, last_ev, sustained, detectorVars, engineVarsButThreads>>

\* _listen_loop lines 145-157: audio arrives while the instance is running.
VoiceHear(t) ==
    /\ threads[t].kind = "voice" /\ threads[t].pc = "listen"
    /\ VoiceRunning(t)
    /\ threads' = [threads EXCEPT ![t].pc = "speech"]
    /\ UNCHANGED <<bindings, is_running, os_calls, ran, last_ev, sustained, detectorVars,
                   engineVarsButThreads>>

\* _listen_loop: the instance is no longer running, the thread ends.
VoiceExit(t) ==
    /\ threads[t].kind = "voice" /\ threads[t].pc = "listen"
    /\ ~VoiceRunning(t)
    /\ threads' = [threads EXCEPT ![t] = NoThread]
    /\ UNCHANGED <<bindings, is_running, os_calls, ran, last_ev, sustained, detectorVars,
                   engineVarsButThreads>>

\* _process_speech: the transcript holds a trigger word, handed to handle_event,
\* or it holds none.
VoiceSpeech(t) ==
    /\ threads[t].kind = "voice" /\ threads[t].pc = "speech"
    /\ \/ threads' = [threads EXCEPT ![t].pc = "listen"]
       \/ \E w \in system_trigger_words(config_bindings) :
             EnterHandler(t, "voice", w, "listen")
    /\ UNCHANGED <<bindings, is_running, os_calls, ran, last_ev, sustained, detectorVars,
                   engineVarsButThreads>>

\* Engine.handle_event lines 162-173 run by thread t: the scan of the bindings
\* and the call of the action.
HandlerRuns(t) ==
    /\ threads[t].pc = "handler"
    /\ os_calls' = CallsAfter(os_calls,
                              ScanBindings(bindings, threads[t].ev[1], threads[t].ev[2]))
    /\ threads' = [threads EXCEPT ![t] =
          [@ EXCEPT !.pc = IF threads[t].kind = "main" THEN "loop" ELSE "listen",
                    !.ev = NoEvent]]
    /\ UNCHANGED <<bindings, is_running, ran, last_ev, sustained, detectorVars, engineVarsButThreads>>

WorkerStep ==
    \E t \in Threads :
        \/ MainOpen(t) \/ MainLoopCheck(t) \/ MainFrame(t) \/ MainLoopEnds(t)
        \/ MainFinally(t)
        \/ VoiceHear(t) \/ VoiceExit(t) \/ VoiceSpeech(t)
        \/ HandlerRuns(t)

GuiStep ==
    \/ start_engine \/ stop_engine \/ stop \/ reload_configuration
    \/ StopTail \/ ReloadLoad \/ ReloadStart

Next == GuiStep \/ WorkerStep

Spec == Init /\ [][Next]_vars

----------------------------------------------------------------------------
(* Claims checked under Spec                                               *)

\* The step in which Engine.stop() returns to its caller.
StopReturns == guiPc \in {"stop_join", "reload_join"} /\ guiPc' \notin {"stop_join", "reload_join"}

\* C1 (as claimed): when Engine.stop() returns, called directly, from the GUI or
\* by reload_configuration, no key is held down: the last OS call issued for
\* every key is not a keyDown.
C1_StopReleasesKeys ==
    [][StopReturns => HeldKeys(os_calls') = {}]_vars

\* Threads inside Engine.handle_event past its is_running test.
InHandler == {t \in Threads : threads[t].pc = "handler"}

C8_StoppedBeforeSwap ==
    guiPc = "reload_start" => \A t \in Threads : threads[t].pc = "dead"

\* C9 (as claimed): once AppGUI.stop_engine has returned, no detector is active:
\* VoiceDetector.running and HandDetector.is_active are both cleared.
C9_StopEngineStopsDetectors ==
    (guiCall = "stop_engine" /\ guiPc = "idle") => det_on = {}

\* C18 (as claimed): the events of one modality are dispatched one after the
\* other in the order they were produced: no two threads are inside
\* Engine.handle_event with events of the same modality.
C18_ModalityDispatchedInOrder ==
    \A modality \in {"hand", "voice"} :
        Cardinality({t \in InHandler : threads[t].ev[1] = modality}) <= 1

\* A main loop thread finds that no camera can be opened (line 184) and ends.
NoCameraOpened ==
    \E t \in Threads :
        threads[t].kind = "main" /\ threads[t].pc = "open" /\ threads'[t].pc = "dead"

\* C19 (as claimed): when the main loop started by Engine.start() cannot open a
\* camera, the engine is left with nothing running: is_running False, no
\* detector active and no worker thread alive, the voice listener included.
C19_FailedStartLeavesNothingRunning ==
    [][NoCameraOpened =>
          /\ ~is_running'
          /\ det_on' = {}
          /\ \A u \in Threads : threads'[u].pc = "dead"]_vars

\* A main-loop thread that is alive while Engine.main_loop_thread names another
\* thread: stop() gave up its join and a later start() created a new one.
Superseded(t) ==
    /\ threads[t].kind = "main" /\ threads[t].pc # "dead"
    /\ main_loop_thread \notin {0, t}

\* C34 (as claimed): a main-loop thread that outlived stop()'s join does not
\* process another frame once a later start() has launched a new main-loop
\* thread: coming round to the loop test it does not enter the loop body.
C34_SupersededThreadStops ==
    [][\A t \in Threads :
          (Superseded(t) /\ threads[t].pc = "loop") => threads'[t].pc # "frame"]_vars

\* The step in which Engine.stop() clears is_running (line 298).
StopClears == guiPc = "idle" /\ guiPc' \in {"stop_join", "reload_join"}

\* A step of the main-loop thread the latest start() created.
OwnMainLoopSteps == main_loop_thread # 0 /\ threads'[main_loop_thread] # threads[main_loop_thread]

\* C35 (as claimed): is_running goes from True to False only in Engine.stop()
\* or in a step of the main-loop thread created by the start() that set it;
\* never in the exit of a main-loop thread of an earlier session.
C35_OnlyOwnSessionSwitchesOff ==
    [][(is_running /\ ~is_running') => (StopClears \/ OwnMainLoopSteps)]_vars

----------------------------------------------------------------------------
(* SpecFace: FacialDetector, one frame of _run_detection_loop per step     *)
(* Measurements are in hundredths (EAR, MAR, ERR) and in degrees (tilt).   *)

ear_threshold == 20
mar_threshold == 35
err_threshold == 134
head_tilt_left_min == 0 - 100
head_tilt_left_max == 0 - 160
head_tilt_right_min == 100
head_tilt_right_max == 160

\* DEFAULT_BLINK_COOLDOWN (0.3 s) in tenths of a second, and the value at which
\* the model stops counting the time since a blink: "more than the cooldown".
blink_cooldown == 3
BlinkAgeCap == blink_cooldown + 1

FaceSignals ==
    {"MOUTH_OPEN", "BOTH_EYES_CLOSED", "EYEBROWS_RAISED", "HEAD_TILT_LEFT", "HEAD_TILT_RIGHT"}

\* A reset that clears the counters and the eye flags and keeps the five
\* stable-state flags.
ResetStatesKeepsFlags(d) ==
    [d EXCEPT !._left_eye_previously_closed = FALSE,
              !._right_eye_previously_closed = FALSE,
              !.left_blink_age = BlinkAgeCap,
              !.right_blink_age = BlinkAgeCap,
              !._mouth_open_counter = 0,
              !._eyebrow_raise_counter = 0,
              !._head_tilt_left_counter = 0,
              !._head_tilt_right_counter = 0,
              !._both_eyes_closed_counter = 0]

\* _reset_states(): every flag False, every counter 0, both blink times 0. The
\* model keeps current_time - _last_*_blink_time instead of the time itself;
\* with current_time = time.time() a blink time of 0 lies far more than the
\* cooldown back.
reset_states(d) ==
    [d EXCEPT !._prev_mouth_open_state = FALSE,
              !._prev_eyebrows_raised_state = FALSE,
              !._prev_head_tilt_left_state = FALSE,
              !._prev_head_tilt_right_state = FALSE,
              !._prev_both_eyes_closed_state = FALSE,
              !._left_eye_previously_closed = FALSE,
              !._right_eye_previously_closed = FALSE,
              !.left_blink_age = BlinkAgeCap,
              !.right_blink_age = BlinkAgeCap,
              !._mouth_open_counter = 0,
              !._eyebrow_raise_counter = 0,
              !._head_tilt_left_counter = 0,
              !._head_tilt_right_counter = 0,
              !._both_eyes_closed_counter = 0]

\* FacialDetector(...) with every consec-frames threshold set to T.
FacialDetector(T) ==
    [running |-> FALSE,
     both_eyes_closed_frames |-> T,
     consec_frames_mouth |-> T,
     consec_frames_eyebrow |-> T,
     consec_frames_head_tilt |-> T,
     _prev_mouth_open_state |-> FALSE,
     _prev_eyebrows_raised_state |-> FALSE,
     _prev_head_tilt_left_state |-> FALSE,
     _prev_head_tilt_right_state |-> FALSE,
     _prev_both_eyes_closed_state |-> FALSE,
     _left_eye_previously_closed |-> FALSE,
     _right_eye_previously_closed |-> FALSE,
     left_blink_age |-> BlinkAgeCap,
     right_blink_age |-> BlinkAgeCap,
     _mouth_open_counter |-> 0,
     _eyebrow_raise_counter |-> 0,
     _head_tilt_left_counter |-> 0,
     _head_tilt_right_counter |-> 0,
     _both_eyes_closed_counter |-> 0]

\* The detector built with threshold T for signal sig (the two head tilts share
\* consec_frames_head_tilt).
WithThreshold(d, sig, T) ==
    CASE sig = "MOUTH_OPEN" -> [d EXCEPT !.consec_frames_mouth = T]
      [] sig = "BOTH_EYES_CLOSED" -> [d EXCEPT !.both_eyes_closed_frames = T]
      [] sig = "EYEBROWS_RAISED" -> [d EXCEPT !.consec_frames_eyebrow = T]
      [] sig \in {"HEAD_TILT_LEFT", "HEAD_TILT_RIGHT"} ->
            [d EXCEPT !.consec_frames_head_tilt = T]

CountUpToThreshold(counter, T) == T

\* min(T, counter + 1)
CountUp(counter, T) == IF counter + 1 < T THEN counter + 1 ELSE T

CountDownUnclamped(counter) == counter - 1

\* max(0, counter - 1)
CountDown(counter) == IF counter - 1 > 0 THEN counter - 1 ELSE 0

IsStableAnyCount(counter, T) == counter >= 1

\* The stable state of a sustained signal: counter >= threshold.
IsStable(counter, T) == counter >= T

\* The raw per-frame tests of lines 220-221, 235, 246, 257, 268-269.
MeasureWithoutDefaults(f) == f

\* Lines 198-214: the measurements of a pass of the loop. They start from the
\* defaults (EAR 1.0 and 1.0, MAR 0, ERR 0, tilt 0) and are computed from the
\* face geometry only if the face mesh found landmarks.
Measure(f) ==
    IF f.landmarks THEN f
    ELSE [f EXCEPT !.ear_left_val = 100, !.ear_right_val = 100, !.mar_val = 0,
                   !.avg_err = 0, !.head_tilt_angle = 0]

is_left_closed_now(f) == Measure(f).ear_right_val < ear_threshold
is_right_closed_now(f) == Measure(f).ear_left_val < ear_threshold
is_mouth_open_now(f) == Measure(f).mar_val > mar_threshold
are_both_eyes_closed_now(f) == is_left_closed_now(f) /\ is_right_closed_now(f)
are_eyebrows_raised_now(f) == Measure(f).avg_err > err_threshold
is_tilt_left_now(f) ==
    head_tilt_left_min >= Measure(f).head_tilt_angle /\ Measure(f).head_tilt_angle >= head_tilt_left_max
is_tilt_right_now(f) ==
    head_tilt_right_min <= Measure(f).head_tilt_angle /\ Measure(f).head_tilt_angle <= head_tilt_right_max

\* current_time - _last_*_blink_time at frame f, which comes f.dt after the
\* previous pass of the loop.
LeftAge(d, f) == Min({BlinkAgeCap, d.left_blink_age + f.dt})
RightAge(d, f) == Min({BlinkAgeCap, d.right_blink_age + f.dt})

LeftCooledInclusive(d, f) == LeftAge(d, f) >= blink_cooldown

\* current_time - _last_*_blink_time > blink_cooldown.
LeftCooled(d, f) == LeftAge(d, f) > blink_cooldown
RightCooled(d, f) == RightAge(d, f) > blink_cooldown

\* Lines 223-225 and 229-231: the conditions under which a blink is emitted.
LeftBlinkIgnoringRightEye(d, f) ==
    /\ is_left_closed_now(f) /\ ~d._left_eye_previously_closed
    /\ LeftCooled(d, f)

LeftBlink(d, f) ==
    /\ is_left_closed_now(f) /\ ~d._left_eye_previously_closed
    /\ LeftCooled(d, f) /\ ~is_right_closed_now(f)

RightBlink(d, f) ==
    /\ is_right_closed_now(f) /\ ~d._right_eye_previously_closed
    /\ RightCooled(d, f) /\ ~is_left_closed_now(f)

\* Lines 226 and 232: the eye flag after the frame, set whether or not the
\* frame emitted a blink.
LeftPreviouslyClosedUnlessSuppressed(d, f) ==
    is_left_closed_now(f) /\ (d._left_eye_previously_closed \/ LeftBlink(d, f))

LeftPreviouslyClosedAfter(d, f) == is_left_closed_now(f)
RightPreviouslyClosedAfter(d, f) == is_right_closed_now(f)

\* Lines 236-237, 247-248, 258-259: a counter after the frame.
CounterAfter(counter, T, raw) == IF raw THEN CountUp(counter, T) ELSE CountDown(counter)

\* A left counter that a tilt to the right takes down by one, as a frame
\* without a tilt does.
TiltLeftAfterDecaying(d, f) ==
    IF is_tilt_left_now(f) THEN CountUp(d._head_tilt_left_counter, d.consec_frames_head_tilt)
    ELSE CountDown(d._head_tilt_left_counter)

\* Lines 271-273: the two head tilt counters after the frame.
TiltLeftAfter(d, f) ==
    IF is_tilt_left_now(f) THEN CountUp(d._head_tilt_left_counter, d.consec_frames_head_tilt)
    ELSE IF is_tilt_right_now(f) THEN 0
    ELSE CountDown(d._head_tilt_left_counter)

TiltRightAfter(d, f) ==
    IF is_tilt_left_now(f) THEN 0
    ELSE IF is_tilt_right_now(f)
         THEN CountUp(d._head_tilt_right_counter, d.consec_frames_head_tilt)
    ELSE CountDown(d._head_tilt_right_counter)

\* The detector's fields after the loop body (lines 219-286) has run on frame f.
DetectionStep(d, f) ==
    LET mouth == CounterAfter(d._mouth_open_counter, d.consec_frames_mouth,
                              is_mouth_open_now(f))
        eyes == CounterAfter(d._both_eyes_closed_counter, d.both_eyes_closed_frames,
                             are_both_eyes_closed_now(f))
        brows == CounterAfter(d._eyebrow_raise_counter, d.consec_frames_eyebrow,
                              are_eyebrows_raised_now(f))
        tl == TiltLeftAfter(d, f)
        tr == TiltRightAfter(d, f)
    IN [d EXCEPT
          !.left_blink_age = IF LeftBlink(d, f) THEN 0 ELSE LeftAge(d, f),
          !._left_eye_previously_closed = LeftPreviouslyClosedAfter(d, f),
          !.right_blink_age = IF RightBlink(d, f) THEN 0 ELSE RightAge(d, f),
          !._right_eye_previously_closed = RightPreviouslyClosedAfter(d, f),
          !._mouth_open_counter = mouth,
          !._prev_mouth_open_state = IsStable(mouth, d.consec_frames_mouth),
          !._both_eyes_closed_counter = eyes,
          !._prev_both_eyes_closed_state = IsStable(eyes, d.both_eyes_closed_frames),
          !._eyebrow_raise_counter = brows,
          !._prev_eyebrows_raised_state = IsStable(brows, d.consec_frames_eyebrow),
          !._head_tilt_left_counter = tl,
          !._prev_head_tilt_left_state = IsStable(tl, d.consec_frames_head_tilt),
          !._head_tilt_right_counter = tr,
          !._prev_head_tilt_right_state = IsStable(tr, d.consec_frames_head_tilt)]

\* The hysteresis counter of a sustained signal.
Counter(d, sig) ==
    CASE sig = "MOUTH_OPEN" -> d._mouth_open_counter
      [] sig = "BOTH_EYES_CLOSED" -> d._both_eyes_closed_counter
      [] sig = "EYEBROWS_RAISED" -> d._eyebrow_raise_counter
      [] sig = "HEAD_TILT_LEFT" -> d._head_tilt_left_counter
      [] sig = "HEAD_TILT_RIGHT" -> d._head_tilt_right_counter

\* The stable-state flag of a sustained signal, its threshold, its raw test.
StableFlag(d, sig) ==
    CASE sig = "MOUTH_OPEN" -> d._prev_mouth_open_state
      [] sig = "BOTH_EYES_CLOSED" -> d._prev_both_eyes_closed_state
      [] sig = "EYEBROWS_RAISED" -> d._prev_eyebrows_raised_state
      [] sig = "HEAD_TILT_LEFT" -> d._prev_head_tilt_left_state
      [] sig = "HEAD_TILT_RIGHT" -> d._prev_head_tilt_right_state

Threshold(d, sig) ==
    CASE sig = "MOUTH_OPEN" -> d.consec_frames_mouth
      [] sig = "BOTH_EYES_CLOSED" -> d.both_eyes_closed_frames
      [] sig = "EYEBROWS_RAISED" -> d.consec_frames_eyebrow
      [] sig \in {"HEAD_TILT_LEFT", "HEAD_TILT_RIGHT"} -> d.consec_frames_head_tilt

RawNow(f, sig) ==
    CASE sig = "MOUTH_OPEN" -> is_mouth_open_now(f)
      [] sig = "BOTH_EYES_CLOSED" -> are_both_eyes_closed_now(f)
      [] sig = "EYEBROWS_RAISED" -> are_eyebrows_raised_now(f)
      [] sig = "HEAD_TILT_LEFT" -> is_tilt_left_now(f)
      [] sig = "HEAD_TILT_RIGHT" -> is_tilt_right_now(f)

\* The event names of lines 33-43.
StartEvent(sig) ==
    CASE sig = "MOUTH_OPEN" -> "MOUTH_OPEN_START"
      [] sig = "BOTH_EYES_CLOSED" -> "BOTH_EYES_CLOSED_START"
      [] sig = "EYEBROWS_RAISED" -> "EYEBROWS_RAISED_START"
      [] sig = "HEAD_TILT_LEFT" -> "HEAD_TILT_LEFT_START"
      [] sig = "HEAD_TILT_RIGHT" -> "HEAD_TILT_RIGHT_START"

StopEvent(sig) ==
    CASE sig = "MOUTH_OPEN" -> "MOUTH_OPEN_STOP"
      [] sig = "BOTH_EYES_CLOSED" -> "BOTH_EYES_CLOSED_STOP"
      [] sig = "EYEBROWS_RAISED" -> "EYEBROWS_RAISED_STOP"
      [] sig = "HEAD_TILT_LEFT" -> "HEAD_TILT_LEFT_STOP"
      [] sig = "HEAD_TILT_RIGHT" -> "HEAD_TILT_RIGHT_STOP"

EdgeEventLevel(d, d2, sig) ==
    IF StableFlag(d2, sig) THEN <<StartEvent(sig)>>
    ELSE IF StableFlag(d, sig) THEN <<StopEvent(sig)>> ELSE <<>>

\* Lines 240-243 (and 251-254, 262-265, 278-286): an event only when the stable
\* state after the frame differs from the flag kept from the frame before.
EdgeEvent(d, d2, sig) ==
    IF StableFlag(d2, sig) = StableFlag(d, sig) THEN <<>>
    ELSE IF StableFlag(d2, sig) THEN <<StartEvent(sig)>> ELSE <<StopEvent(sig)>>

\* The events handed to event_handler during the frame, in the order of the code.
EmittedEvents(d, f) ==
    LET d2 == DetectionStep(d, f)
    IN (IF LeftBlink(d, f) THEN <<"LEFT_BLINK">> ELSE <<>>)
       \o (IF RightBlink(d, f) THEN <<"RIGHT_BLINK">> ELSE <<>>)
       \o EdgeEvent(d, d2, "MOUTH_OPEN") \o EdgeEvent(d, d2, "BOTH_EYES_CLOSED")
       \o EdgeEvent(d, d2, "EYEBROWS_RAISED")
       \o EdgeEvent(d, d2, "HEAD_TILT_LEFT") \o EdgeEvent(d, d2, "HEAD_TILT_RIGHT")

\* How often event e occurs in the sequence es.
Occurrences(es, e) == Cardinality({n \in 1..Len(es) : es[n] = e})

\* What an event is about: its sustained signal, or "BLINK".
EventSubject(e) ==
    IF e \in {"LEFT_BLINK", "RIGHT_BLINK"} THEN "BLINK"
    ELSE CHOOSE sig \in FaceSignals : e \in {StartEvent(sig), StopEvent(sig)}

\* The events of es that are about subject w, in order.
Observed(es, w) == SelectSeq(es, LAMBDA e : EventSubject(e) = w)

\* The frames fed to the detector: whether the face mesh finds landmarks, what
\* the geometry of the picture gives (in hundredths, the tilt in degrees), and
\* the time dt since the previous pass in tenths of a second.
EyePoses == {<<30, 30>>, <<10, 30>>, <<30, 10>>, <<10, 10>>}

FacePoses == {<<0, 0, 0>>, <<50, 0, 0>>, <<0, 150, 0>>, <<50, 150, 0>>,
              <<0, 0, 0 - 130>>, <<0, 0, 130>>, <<50, 0, 0 - 130>>}

\* Frames whose measurements lie on a threshold or just beyond a tilt range.
EdgePoses == {<<20, 20, 35, 134, 0 - 100>>, <<100, 100, 0, 0, 160>>,
              <<100, 100, 0, 0, 0 - 170>>, <<100, 100, 0, 0, 170>>}

Frame(lm, el, er, m, e, a, dt) ==
    [landmarks |-> lm, ear_left_val |-> el, ear_right_val |-> er, mar_val |-> m,
     avg_err |-> e, head_tilt_angle |-> a, dt |-> dt]

\* A picture without a face: no landmarks, whatever the picture's geometry
\* would have given.
NoFaceFrames == {Frame(FALSE, 10, 10, 50, 150, 130, BlinkAgeCap),
                 Frame(FALSE, 10, 10, 50, 150, 0 - 130, BlinkAgeCap)}

\* The frames of SpecFace come more than the blink cooldown apart; SpecBlink
\* varies the time between frames.
FramePool ==
    {Frame(TRUE, ey[1], ey[2], fp[1], fp[2], fp[3], BlinkAgeCap) :
        ey \in EyePoses, fp \in FacePoses}
    \cup {Frame(TRUE, ep[1], ep[2], ep[3], ep[4], ep[5], BlinkAgeCap) : ep \in EdgePoses}
    \cup NoFaceFrames

\* The observer's record of the blink events. Per event: clock, the time since
\* the event was last emitted in this session (BlinkAgeCap: never, or more than
\* the cooldown ago); apart, the time between its last two emissions
\* (BlinkAgeCap: more than the cooldown, or fewer than two emissions); closed,
\* the raw closed test of its eye on the latest frame; closings, how many
\* times that eye has gone from open to closed with the other eye open since
\* the event was last emitted, that emission's closing included (up to 2);
\* quiet_closing, whether the latest frame was such a closing and emitted
\* nothing for it; emitted_on_held, whether the eye was closed already on the
\* frame before the latest emission.
BlinkEvents == {"LEFT_BLINK", "RIGHT_BLINK"}

NoBlinkSeen ==
    [e \in BlinkEvents |->
        [clock |-> BlinkAgeCap, apart |-> BlinkAgeCap, closed |-> FALSE, closings |-> 0,
         quiet_closing |-> FALSE, emitted_on_held |-> FALSE, closing_together |-> FALSE,
         closure_emits |-> 0, suppressed |-> FALSE]]

ClosedNow(e, f) == IF e = "LEFT_BLINK" THEN is_left_closed_now(f) ELSE is_right_closed_now(f)
OtherClosedNow(e, f) == IF e = "LEFT_BLINK" THEN is_right_closed_now(f) ELSE is_left_closed_now(f)

BlinkObserved(obs, es, f) ==
    [e \in BlinkEvents |->
        LET o == obs[e]
            elapsed == Min({BlinkAgeCap, o.clock + f.dt})
            emitted == Occurrences(es, e) > 0
            closing == ClosedNow(e, f) /\ ~o.closed /\ ~OtherClosedNow(e, f)
        IN [clock |-> IF emitted THEN 0 ELSE elapsed,
            apart |-> IF emitted THEN elapsed ELSE o.apart,
            closed |-> ClosedNow(e, f),
            closings |-> IF emitted THEN 1
                         ELSE IF closing THEN Min({2, o.closings + 1}) ELSE o.closings,
            quiet_closing |-> closing /\ ~emitted,
            emitted_on_held |-> IF emitted THEN o.closed ELSE o.emitted_on_held,
            closing_together |-> /\ ClosedNow(e, f) /\ OtherClosedNow(e, f)
                                 /\ \A e2 \in BlinkEvents : ~obs[e2].closed,
            closure_emits |-> IF ~ClosedNow(e, f) THEN 0
                              ELSE Min({2, (IF o.closed THEN o.closure_emits ELSE 0)
                                           + (IF emitted THEN 1 ELSE 0)}),
            suppressed |-> IF ~ClosedNow(e, f) THEN FALSE
                           ELSE IF o.closed THEN o.suppressed
                           ELSE elapsed <= blink_cooldown /\ ~emitted]]

InitFace ==
    /\ EngineConstructed(ConfigEmpty)
    /\ StandaloneAbsent
    /\ os_calls = NoCalls
    /\ ran = <<>>
    /\ last_ev = NoEvent
    /\ sustained = {}
    /\ watch \in FaceSignals
    /\ \E T \in 1..MaxConsec : fd = WithThreshold(FacialDetector(1), watch, T)
    /\ seen_true = 0
    /\ run = 0
    /\ run_from_stable = FALSE
    /\ face_events = <<>>
    /\ blink_obs = NoBlinkSeen
    /\ noface_run = 0
    /\ last_edge = None
    /\ hd = None
    /\ hand_events = <<>>
    /\ hand_obs = NoHandSeen
    /\ stale_at_start = NotStale
    /\ vd = None
    /\ dev = DevicesReady

\* The debouncer state _reset_states() is to establish: what __init__ leaves.
FaceDebouncerInitial(d) ==
    /\ \A sig \in FaceSignals : Counter(d, sig) = 0 /\ ~StableFlag(d, sig)
    /\ ~d._left_eye_previously_closed /\ ~d._right_eye_previously_closed
    /\ d.left_blink_age = BlinkAgeCap /\ d.right_blink_age = BlinkAgeCap

\* FacialDetector.start() when the camera opens: the states are reset, the loop
\* runs. (When it does not open, IOError is caught and running stays False.)
FaceStart ==
    /\ ~fd.running
    /\ dev.camera
    /\ dev' = [dev EXCEPT !.cap_opened = TRUE, !.face_pc = "head", !.face_retries = 0]
    /\ fd' = [reset_states(fd) EXCEPT !.running = TRUE]
    /\ seen_true' = 0
    /\ run' = 0
    /\ run_from_stable' = FALSE
    /\ face_events' = <<>>
    /\ blink_obs' = NoBlinkSeen
    /\ noface_run' = 0
    /\ last_edge' = None
    /\ stale_at_start' = [stale_at_start EXCEPT !.face = ~FaceDebouncerInitial(fd)]
    /\ UNCHANGED <<dispatchVars, engineVars, standaloneVars, handVars, watch, vd>>

\* FacialDetector.stop(): running cleared, the loop thread joined, the capture
\* released.
FaceStop ==
    /\ fd.running
    /\ dev' = [dev EXCEPT !.cap_opened = FALSE, !.face_pc = "head", !.face_retries = 0]
    /\ fd' = [fd EXCEPT !.running = FALSE]
    /\ face_events' = <<>>
    /\ blink_obs' = NoBlinkSeen
    /\ noface_run' = 0
    /\ last_edge' = None
    /\ stale_at_start' = [stale_at_start EXCEPT !.face = FALSE]
    /\ UNCHANGED <<dispatchVars, engineVars, standaloneVars, handVars, watch, seen_true, run, run_from_stable,
                   vd>>

\* The event of the watched signal handed to the event handler last: the last
\* one of es, or the one before when es has none.
LastEdge(last, es) == IF es = <<>> THEN last ELSE es[Len(es)]

\* One pass of the detection loop on frame f, and the record of what the watched
\* signal's raw test said.
FaceFrame(f) ==
    /\ fd.running /\ dev.cap_opened /\ dev.face_pc = "head"
    /\ fd' = DetectionStep(fd, f)
    /\ face_events' = Observed(EmittedEvents(fd, f), watch)
    /\ LET T == Threshold(fd, watch)
           raw == RawNow(f, watch)
           continues == (raw /\ run > 0) \/ (~raw /\ run < 0)
       IN /\ seen_true' = IF raw /\ seen_true < T THEN seen_true + 1 ELSE seen_true
          /\ run' = IF raw THEN (IF run > 0 THEN (IF run < T THEN run + 1 ELSE T) ELSE 1)
                    ELSE (IF run < 0 THEN (IF run > 0 - T THEN run - 1 ELSE 0 - T) ELSE 0 - 1)
          /\ run_from_stable' = IF continues THEN run_from_stable
                                ELSE StableFlag(fd, watch)
    /\ noface_run' = IF f.landmarks THEN 0 ELSE Min({MaxConsec, noface_run + 1})
    /\ last_edge' = LastEdge(last_edge, face_events')
    /\ stale_at_start' = [stale_at_start EXCEPT !.face = FALSE]
    /\ UNCHANGED <<dispatchVars, engineVars, standaloneVars, handVars, watch, blink_obs, deviceVars>>

DetectionLoop == \E f \in FramePool : FaceFrame(f)

NextFace == FaceStart \/ FaceStop \/ DetectionLoop

SpecFace == InitFace /\ [][NextFace]_vars

----------------------------------------------------------------------------
(* Claims checked under SpecFace                                           *)

\* C10: for the watched sustained signal with threshold T, counted from start():
\* after T consecutive raw-true frames it is stable; after fewer than T raw-true
\* frames in all it is not stable; and T consecutive raw-false frames that
\* began in a stable state leave it not stable.
C10_Hysteresis ==
    LET T == Threshold(fd, watch)
    IN /\ run >= T => StableFlag(fd, watch)
       /\ seen_true < T => ~StableFlag(fd, watch)
       /\ (run <= 0 - T /\ run_from_stable) => ~StableFlag(fd, watch)

\* C10 witness: with a threshold above 1, the watched signal was stable and T
\* raw-false frames in a row have made it not stable.
C10_Witness ==
    /\ Threshold(fd, watch) > 1
    /\ fd.running
    /\ run = 0 - Threshold(fd, watch) /\ run_from_stable
    /\ seen_true = Threshold(fd, watch)
    /\ ~StableFlag(fd, watch)

\* The watched signal becomes stable in this step of the detection loop.
BecomesStable ==
    /\ fd.running /\ fd'.running
    /\ ~StableFlag(fd, watch) /\ StableFlag(fd', watch)

C12_CountersBounded ==
    \A sig \in FaceSignals :
        Counter(fd, sig) >= 0 /\ Counter(fd, sig) <= Threshold(fd, sig)

\* C12 witness: the watched counter stands at its threshold, the largest the
\* detector is built with, after a raw-true run at least that long, while the
\* counter of another signal stands at 0.
C12_Witness ==
    /\ fd.running /\ Threshold(fd, watch) = MaxConsec
    /\ Counter(fd, watch) = MaxConsec /\ run >= MaxConsec
    /\ \E sig \in FaceSignals : Counter(fd, sig) = 0

\* The stable state of a signal as its counter gives it.
StableByCounter(d, sig) == Counter(d, sig) >= Threshold(d, sig)

\* C13: in every pass of the detection loop, for the watched sustained signal,
\* one START is emitted when the stable state goes from false to true, one STOP
\* when it goes from true to false, and no event of the signal otherwise.
C13_OneEventPerChange ==
    [][(fd.running /\ fd'.running) =>
          /\ Occurrences(face_events', StartEvent(watch)) =
                IF ~StableByCounter(fd, watch) /\ StableByCounter(fd', watch) THEN 1 ELSE 0
          /\ Occurrences(face_events', StopEvent(watch)) =
                IF StableByCounter(fd, watch) /\ ~StableByCounter(fd', watch) THEN 1 ELSE 0
          /\ Len(face_events') <= 1]_vars

\* C13 witness: the frame that ended a stable state of the watched signal, reached
\* through a raw-true run, has emitted the signal's STOP and no START.
C13_Witness ==
    /\ fd.running /\ Threshold(fd, watch) >= 2
    /\ run = 0 - 1 /\ run_from_stable
    /\ Occurrences(face_events, StopEvent(watch)) = 1
    /\ Occurrences(face_events, StartEvent(watch)) = 0

\* C16: a pass of the loop on a frame without a face takes every hysteresis
\* counter down by one, not below 0, and leaves both eyes recorded as open,
\* as a frame whose raw tests are all false does; the watched signal is not
\* stable once as many no-face frames as its threshold have passed, and the
\* pass on which it stops being stable emits its STOP.
C16_NoFaceDecays ==
    [][(fd.running /\ fd'.running /\ noface_run' > 0) =>
          /\ \A sig \in FaceSignals :
                Counter(fd', sig) = IF Counter(fd, sig) > 0 THEN Counter(fd, sig) - 1 ELSE 0
          /\ ~fd'._left_eye_previously_closed /\ ~fd'._right_eye_previously_closed
          /\ noface_run' >= Threshold(fd, watch) => ~StableFlag(fd', watch)
          /\ (StableFlag(fd, watch) /\ ~StableFlag(fd', watch)) =>
                face_events' = <<StopEvent(watch)>>]_vars

\* C16 witness: the face left the frame while the watched signal, with a
\* threshold of at least 2, was stable; the first no-face frame took its
\* counter from T to T-1 and emitted its STOP.
C16_Witness ==
    /\ fd.running /\ Threshold(fd, watch) >= 2
    /\ noface_run = 1 /\ run = 0 - 1 /\ run_from_stable
    /\ Counter(fd, watch) = Threshold(fd, watch) - 1
    /\ face_events = <<StopEvent(watch)>>

\* The events es of the watched signal continue an alternating sequence whose
\* last event was last (None: no event yet): a START follows None or a STOP, a
\* STOP follows a START.
RECURSIVE Alternates(_, _)
Alternates(last, es) ==
    IF es = <<>> THEN TRUE
    ELSE /\ \/ Head(es) = StartEvent(watch) /\ last # StartEvent(watch)
            \/ Head(es) = StopEvent(watch) /\ last = StartEvent(watch)
         /\ Alternates(Head(es), Tail(es))

\* C39: between a start() and the next stop(), the events of the watched
\* sustained signal alternate START, STOP, START, ..., beginning with START: a
\* STOP is emitted only when the signal's last event since start() was its
\* START, and a START only when there was none yet or the last one was its STOP.
C39_StartStopAlternate ==
    [][(fd.running /\ fd'.running) => Alternates(last_edge, face_events')]_vars

\* C39 witness: with a threshold of at least 2, the frame after a single
\* raw-false frame has made the watched signal stable again: the counter stood
\* at T before the raw-false frame, so the session has emitted START, STOP and
\* START.
C39_Witness ==
    /\ fd.running /\ Threshold(fd, watch) >= 2
    /\ run = 1 /\ ~run_from_stable
    /\ face_events = <<StartEvent(watch)>>
    /\ last_edge = StartEvent(watch)

\* C40: at most one of the head-tilt-left and head-tilt-right counters is
\* non-zero, so the two tilt states are never stable together, by their counters
\* or by their flags, whatever tilt angles and no-face frames have come.
C40_OneTiltCounterNonZero ==
    /\ fd._head_tilt_left_counter = 0 \/ fd._head_tilt_right_counter = 0
    /\ ~(StableByCounter(fd, "HEAD_TILT_LEFT") /\ StableByCounter(fd, "HEAD_TILT_RIGHT"))
    /\ ~(fd._prev_head_tilt_left_state /\ fd._prev_head_tilt_right_state)

\* C40 witness: the tilt to the left, with a threshold of at least 2, was stable
\* and one frame tilted to the right has put its counter to 0, not to T-1, and
\* the right counter to 1; the frame emitted the STOP of the left tilt.
C40_Witness ==
    /\ fd.running /\ watch = "HEAD_TILT_LEFT" /\ fd.consec_frames_head_tilt >= 2
    /\ run = 0 - 1 /\ run_from_stable
    /\ fd._head_tilt_left_counter = 0 /\ fd._head_tilt_right_counter = 1
    /\ face_events = <<"HEAD_TILT_LEFT_STOP">>

----------------------------------------------------------------------------
(* SpecBlink: the blink part of the detection loop, with frames that come  *)
(* 0.1 s or 0.2 s apart and differ in the eyes only                        *)

BlinkGaps == {1, 2}

BlinkFramePool ==
    {Frame(TRUE, ey[1], ey[2], 0, 0, 0, dt) : ey \in EyePoses, dt \in BlinkGaps}

InitBlink ==
    /\ EngineConstructed(ConfigEmpty)
    /\ StandaloneAbsent
    /\ os_calls = NoCalls
    /\ ran = <<>>
    /\ last_ev = NoEvent
    /\ sustained = {}
    /\ watch = "BLINK"
    /\ fd = FacialDetector(1)
    /\ seen_true = 0
    /\ run = 0
    /\ run_from_stable = FALSE
    /\ face_events = <<>>
    /\ blink_obs = NoBlinkSeen
    /\ noface_run = 0
    /\ last_edge = None
    /\ hd = None
    /\ hand_events = <<>>
    /\ hand_obs = NoHandSeen
    /\ stale_at_start = NotStale
    /\ vd = None
    /\ dev = DevicesReady

\* One pass of the detection loop on frame f, and the record of the blink events
\* it emitted.
BlinkFrame(f) ==
    /\ fd.running /\ dev.cap_opened /\ dev.face_pc = "head"
    /\ fd' = DetectionStep(fd, f)
    /\ face_events' = Observed(EmittedEvents(fd, f), watch)
    /\ blink_obs' = BlinkObserved(blink_obs, face_events', f)
    /\ stale_at_start' = [stale_at_start EXCEPT !.face = FALSE]
    /\ UNCHANGED <<dispatchVars, engineVars, standaloneVars, handVars, watch, seen_true, run,
                   run_from_stable, noface_run, last_edge, deviceVars>>

BlinkLoop == \E f \in BlinkFramePool : BlinkFrame(f)

NextBlink == FaceStart \/ FaceStop \/ BlinkLoop

SpecBlink == InitBlink /\ [][NextBlink]_vars

----------------------------------------------------------------------------
(* Claims checked under SpecBlink                                          *)

\* C14: within a session (start() to stop()), two emissions of the same blink
\* event are more than blink_cooldown apart; so when an eye closes, opens and
\* closes again no more than blink_cooldown after its blink was emitted, the
\* second closing emits nothing.
C14_BlinkCooldown ==
    \A e \in BlinkEvents :
        blink_obs[e].apart > blink_cooldown

\* C14 witness: the left-blink eye has closed a second time, alone, exactly
\* blink_cooldown after its blink was emitted, and the frame emitted nothing.
C14_Witness ==
    /\ fd.running
    /\ blink_obs["LEFT_BLINK"].quiet_closing
    /\ blink_obs["LEFT_BLINK"].closings = 2
    /\ blink_obs["LEFT_BLINK"].clock = blink_cooldown
    /\ face_events = <<>>

\* C15: LEFT_BLINK is emitted on the second consecutive frame on which the
\* left-blink eye is closed (the other eye open, the cooldown elapsed), not on
\* the first: on the frame before an emission the eye was closed already.
C15_BlinkOnSecondClosedFrame ==
    (fd.running /\ Occurrences(face_events, "LEFT_BLINK") > 0) =>
        blink_obs["LEFT_BLINK"].emitted_on_held

\* C24: no blink event is emitted on a frame on which both eyes are closed,
\* and no frame emits both LEFT_BLINK and RIGHT_BLINK.
C24_NoBlinkWhenBothEyesClosed ==
    /\ (\A e \in BlinkEvents : blink_obs[e].closed) =>
           \A e \in BlinkEvents : Occurrences(face_events, e) = 0
    /\ ~(\A e \in BlinkEvents : Occurrences(face_events, e) > 0)

\* C24 witness: both eyes closed on the same frame, both open on the frame
\* before, no blink emitted earlier in the session, and the frame emitted
\* nothing.
C24_Witness ==
    /\ fd.running
    /\ \A e \in BlinkEvents :
          /\ blink_obs[e].closing_together
          /\ blink_obs[e].clock = BlinkAgeCap
          /\ blink_obs[e].closings = 0
    /\ face_events = <<>>

\* C26: a closure of an eye that began within blink_cooldown of the eye's
\* last blink event emits no blink event, however long the eye stays closed;
\* no uninterrupted closure emits more than one blink event.
C26_SuppressedEdgeIsConsumed ==
    \A e \in BlinkEvents :
        /\ blink_obs[e].closure_emits <= 1
        /\ blink_obs[e].suppressed => blink_obs[e].closure_emits = 0

\* C26 witness: the left-blink eye closed within the cooldown, is still
\* closed now that the cooldown is over, the other eye is open, and the
\* frame emitted nothing.
C26_Witness ==
    /\ fd.running
    /\ blink_obs["LEFT_BLINK"].suppressed
    /\ blink_obs["LEFT_BLINK"].closed
    /\ ~blink_obs["RIGHT_BLINK"].closed
    /\ blink_obs["LEFT_BLINK"].clock > blink_cooldown
    /\ face_events = <<>>

----------------------------------------------------------------------------
(* HandDetector: the gesture debouncer of process_frame                    *)

MaxGestureConsec == 2    \* largest consec_frames_for_gesture a HandDetector is built with
MaxGestureCounter == 3   \* _gesture_counter is followed up to this value

GESTURE_NONE_EVENT == "HAND_GESTURE_NONE"

HandResetKeepsCounter(h) ==
    [h EXCEPT !._current_stable_gesture = GESTURE_NONE_EVENT,
              !._last_detected_gesture = GESTURE_NONE_EVENT]

\* HandDetector._reset_states().
hand_reset_states(h) ==
    [h EXCEPT !._current_stable_gesture = GESTURE_NONE_EVENT,
              !._last_detected_gesture = GESTURE_NONE_EVENT,
              !._gesture_counter = 0]

\* HandDetector(consec_frames_for_gesture = N): not active, no MediaPipe Hands
\* object, the states reset.
HandDetector(N) ==
    [is_active |-> FALSE,
     hands |-> FALSE,
     consec_frames_for_gesture |-> N,
     _current_stable_gesture |-> GESTURE_NONE_EVENT,
     _last_detected_gesture |-> GESTURE_NONE_EVENT,
     _gesture_counter |-> 0]

\* Lines 112-113: the counter after a frame on which gesture g was detected.
GestureCounterAfter(h, g) ==
    IF g = h._last_detected_gesture THEN h._gesture_counter + 1 ELSE 0

\* Line 115.
GestureIsStable(h, g) == GestureCounterAfter(h, g) >= h.consec_frames_for_gesture

\* Lines 119-120: the condition under which process_frame emits.
GestureEmitsWheneverStable(h, g) ==
    \/ GestureIsStable(h, g)
    \/ /\ GestureCounterAfter(h, g) = 0
       /\ g = GESTURE_NONE_EVENT
       /\ h._current_stable_gesture # GESTURE_NONE_EVENT

GestureEmits(h, g) ==
    \/ GestureIsStable(h, g) /\ g # h._current_stable_gesture
    \/ /\ GestureCounterAfter(h, g) = 0
       /\ g = GESTURE_NONE_EVENT
       /\ h._current_stable_gesture # GESTURE_NONE_EVENT

\* Line 122: the stable gesture after the frame.
StableGestureAfter(h, g) ==
    IF GestureEmits(h, g)
    THEN (IF GestureIsStable(h, g) THEN g ELSE GESTURE_NONE_EVENT)
    ELSE h._current_stable_gesture

\* The detector's fields after process_frame (lines 111-127) on a frame whose
\* detected gesture is g (GESTURE_NONE_EVENT: no hand, or no known gesture).
process_frame(h, g) ==
    [h EXCEPT !._gesture_counter = GestureCounterAfter(h, g),
              !._last_detected_gesture = g,
              !._current_stable_gesture = StableGestureAfter(h, g)]

\* The events process_frame hands to the event handler.
HandEmitted(h, g) == IF GestureEmits(h, g) THEN <<StableGestureAfter(h, g)>> ELSE <<>>

\* What an observer of the frames and of the event handler knows after
\* process_frame on a frame showing g: how many of the latest frames showed g
\* in a row, the stable gesture before the frame, whether the frames since a
\* stable gesture have been one frame without gesture and then that gesture
\* again, the event emitted last and the one emitted before it, and how many
\* events (up to two) were emitted since start().
HandObserved(o, h, g) ==
    LET emitted == HandEmitted(h, g)
        len == IF o.run_gesture = g THEN Min({MaxGestureCounter + 1, o.run_len + 1}) ELSE 1
    IN [run_gesture |-> g,
        run_len |-> len,
        stable_before |-> h._current_stable_gesture,
        after_noise |->
            IF /\ g # GESTURE_NONE_EVENT
               /\ \/ /\ o.run_gesture = GESTURE_NONE_EVENT /\ o.run_len = 1
                     /\ o.stable_before = g
                  \/ o.after_noise = g
            THEN g ELSE None,
        last_emitted |-> IF emitted # <<>> THEN emitted[Len(emitted)] ELSE o.last_emitted,
        emitted_before |-> IF emitted # <<>> THEN o.last_emitted ELSE o.emitted_before,
        session_events |-> Min({2, o.session_events + Len(emitted)})]

\* The debouncer state _reset_states() is to establish: what __init__ leaves.
HandDebouncerInitial(h) ==
    /\ h._current_stable_gesture = GESTURE_NONE_EVENT
    /\ h._last_detected_gesture = GESTURE_NONE_EVENT
    /\ h._gesture_counter = 0

\* HandDetector.start() when MediaPipe Hands initialises. (When it raises, the
\* detector is left inactive without hands, as it was.)
HandStart ==
    /\ ~hd.is_active
    /\ hd' = [hand_reset_states(hd) EXCEPT !.hands = TRUE, !.is_active = TRUE]
    /\ hand_events' = <<>>
    /\ hand_obs' = [NoHandSeen EXCEPT !.last_emitted = hand_obs.last_emitted,
                                      !.emitted_before = hand_obs.emitted_before]
    /\ stale_at_start' = [stale_at_start EXCEPT !.hand = ~HandDebouncerInitial(hd)]
    /\ UNCHANGED <<dispatchVars, engineVars, standaloneVars, faceVars, deviceVars>>

\* HandDetector.stop().
HandStop ==
    /\ hd.is_active
    /\ hd' = [hd EXCEPT !.is_active = FALSE, !.hands = FALSE]
    /\ hand_events' = <<>>
    /\ UNCHANGED hand_obs
    /\ stale_at_start' = [stale_at_start EXCEPT !.hand = FALSE]
    /\ UNCHANGED <<dispatchVars, engineVars, standaloneVars, faceVars, deviceVars>>

\* HandDetector.process_frame on a frame showing gesture g.
HandFrame(g) ==
    /\ hd.is_active /\ hd.hands
    /\ GestureCounterAfter(hd, g) <= MaxGestureCounter
    /\ hd' = process_frame(hd, g)
    /\ hand_events' = HandEmitted(hd, g)
    /\ hand_obs' = IF watch = "HAND" THEN HandObserved(hand_obs, hd, g) ELSE hand_obs
    /\ stale_at_start' = [stale_at_start EXCEPT !.hand = FALSE]
    /\ UNCHANGED <<dispatchVars, engineVars, standaloneVars, faceVars, deviceVars>>

HandLoop == \E g \in HandEvents : HandFrame(g)

----------------------------------------------------------------------------
(* SpecDetectors: sessions of a FacialDetector and of a HandDetector       *)

\* Four pictures: everything at once with the head tilted left, one eye closed
\* with the head tilted right, a neutral face, and no face.
SessionFramePool ==
    {Frame(TRUE, 10, 10, 50, 150, 0 - 130, BlinkAgeCap),
     Frame(TRUE, 30, 10, 0, 0, 130, 1),
     Frame(TRUE, 30, 30, 0, 0, 0, 1),
     Frame(FALSE, 10, 10, 50, 150, 130, 1)}

InitDetectors ==
    /\ EngineConstructed(ConfigEmpty)
    /\ StandaloneAbsent
    /\ os_calls = NoCalls
    /\ ran = <<>>
    /\ last_ev = NoEvent
    /\ sustained = {}
    /\ watch = "MOUTH_OPEN"
    /\ fd = FacialDetector(2)
    /\ seen_true = 0
    /\ run = 0
    /\ run_from_stable = FALSE
    /\ face_events = <<>>
    /\ blink_obs = NoBlinkSeen
    /\ noface_run = 0
    /\ last_edge = None
    /\ \E N \in 1..MaxGestureConsec : hd = HandDetector(N)
    /\ hand_events = <<>>
    /\ hand_obs = NoHandSeen
    /\ stale_at_start = NotStale
    /\ vd = None
    /\ dev = DevicesReady

SessionLoop == \E f \in SessionFramePool : FaceFrame(f)

NextDetectors == FaceStart \/ FaceStop \/ SessionLoop \/ HandStart \/ HandStop \/ HandLoop

SpecDetectors == InitDetectors /\ [][NextDetectors]_vars

----------------------------------------------------------------------------
(* Claims checked under SpecDetectors                                      *)

\* C17: a start() that starts a detector leaves its debouncer state equal to
\* the state of a newly built detector with the same settings (every counter
\* 0, every previous-state flag false, both blink times 0, stable gesture and
\* last gesture NONE), whatever the state was before; the events of the new
\* session are computed from that state and the new frames alone.
C17_StartResets ==
    [][/\ (~fd.running /\ fd'.running) =>
             fd' = [FacialDetector(fd.consec_frames_mouth) EXCEPT !.running = TRUE]
       /\ (~hd.is_active /\ hd'.is_active) =>
             hd' = [HandDetector(hd.consec_frames_for_gesture) EXCEPT
                       !.is_active = TRUE, !.hands = TRUE]]_vars

\* C17 witness: both detectors have just been started again from a stopped
\* state that was not the initial one, and stand in the initial state.
C17_Witness ==
    /\ fd.running /\ stale_at_start.face /\ FaceDebouncerInitial(fd)
    /\ hd.is_active /\ stale_at_start.hand /\ HandDebouncerInitial(hd)

----------------------------------------------------------------------------
(* SpecHand: a HandDetector on its own, its frames and events observed     *)

InitHand ==
    /\ EngineConstructed(ConfigEmpty)
    /\ StandaloneAbsent
    /\ os_calls = NoCalls
    /\ ran = <<>>
    /\ last_ev = NoEvent
    /\ sustained = {}
    /\ fd = None
    /\ watch = "HAND"
    /\ seen_true = 0
    /\ run = 0
    /\ run_from_stable = FALSE
    /\ face_events = <<>>
    /\ blink_obs = None
    /\ noface_run = 0
    /\ last_edge = None
    /\ \E N \in 1..MaxGestureConsec : hd = HandDetector(N)
    /\ hand_events = <<>>
    /\ hand_obs = NoHandSeen
    /\ stale_at_start = NotStale
    /\ vd = None
    /\ dev = None

NextHand == HandStart \/ HandStop \/ HandLoop

SpecHand == InitHand /\ [][NextHand]_vars

\* C27: a gesture detected on N = consec_frames_for_gesture frames in a row
\* (after a frame showing something else, or from start()) is the stable
\* gesture, and the event emitted last names it, from the N-th of those
\* frames on.
C27_StableOnNthFrame ==
    (/\ hd.is_active
     /\ hand_obs.run_gesture \notin {None, GESTURE_NONE_EVENT}
     /\ hand_obs.run_len >= hd.consec_frames_for_gesture) =>
        /\ hd._current_stable_gesture = hand_obs.run_gesture
        /\ hand_obs.last_emitted = hand_obs.run_gesture

\* C28: while a gesture G is stable, one frame without hand or gesture leaves
\* G stable and emits nothing, and so does every frame showing G that follows
\* it.
C28_SingleFrameNoiseSuppressed ==
    hd.is_active =>
        /\ (/\ hand_obs.run_gesture = GESTURE_NONE_EVENT
            /\ hand_obs.run_len = 1
            /\ hand_obs.stable_before \notin {None, GESTURE_NONE_EVENT}) =>
               /\ hd._current_stable_gesture = hand_obs.stable_before
               /\ hand_events = <<>>
        /\ hand_obs.after_noise # None =>
               /\ hd._current_stable_gesture = hand_obs.after_noise
               /\ hand_events = <<>>

\* C29 as stated: a frame emits at most one event; the event names the stable
\* gesture after the frame and differs from the stable gesture before the
\* frame and from the event emitted before it; a frame that emits nothing
\* leaves the stable gesture as it was.
C29_EventOnlyOnChange ==
    (hd.is_active /\ hand_obs.run_len > 0) =>
        IF hand_events # <<>>
        THEN /\ Len(hand_events) = 1
             /\ hand_events[1] = hd._current_stable_gesture
             /\ hand_events[1] # hand_obs.stable_before
             /\ hand_events[1] # hand_obs.emitted_before
        ELSE hd._current_stable_gesture = hand_obs.stable_before

\* C29 as the code has it: the same, the event differing from the event
\* emitted before it since start().
C29_EventOnlyOnChangeSinceStart ==
    (hd.is_active /\ hand_obs.run_len > 0) =>
        IF hand_events # <<>>
        THEN /\ Len(hand_events) = 1
             /\ hand_events[1] = hd._current_stable_gesture
             /\ hand_events[1] # hand_obs.stable_before
             /\ hand_obs.session_events = 2 => hand_events[1] # hand_obs.emitted_before
        ELSE hd._current_stable_gesture = hand_obs.stable_before

\* C29 witness: the second event since start() has just been emitted.
C29_Witness ==
    /\ hd.is_active
    /\ hand_events # <<>>
    /\ hand_obs.session_events = 2
    /\ hand_obs.emitted_before # None

----------------------------------------------------------------------------
(* SpecDevice: the loops of FacialDetector and VoiceDetector when the      *)
(* camera or the microphone goes away                                      *)

MaxRetries == 2    \* failed attempts of a loop are counted up to this value

\* VoiceDetector with a microphone, not running.
VoiceDetector == [running |-> FALSE]

DeviceFramePool ==
    {Frame(TRUE, 30, 30, 50, 0, 0, BlinkAgeCap), Frame(FALSE, 30, 30, 0, 0, 0, BlinkAgeCap)}

InitDevice ==
    /\ EngineConstructed(ConfigEmpty)
    /\ StandaloneAbsent
    /\ os_calls = NoCalls
    /\ ran = <<>>
    /\ last_ev = NoEvent
    /\ sustained = {}
    /\ watch = "MOUTH_OPEN"
    /\ fd = FacialDetector(1)
    /\ seen_true = 0
    /\ run = 0
    /\ run_from_stable = FALSE
    /\ face_events = <<>>
    /\ blink_obs = NoBlinkSeen
    /\ noface_run = 0
    /\ last_edge = None
    /\ hd = None
    /\ hand_events = <<>>
    /\ hand_obs = NoHandSeen
    /\ stale_at_start = NotStale
    /\ vd = VoiceDetector
    /\ dev = DevicesReady

\* The camera is unplugged or taken by another program: the capture of a
\* running detector is no longer opened.
CameraLost ==
    /\ dev.camera
    /\ dev' = [dev EXCEPT !.camera = FALSE, !.cap_opened = FALSE]
    /\ UNCHANGED <<dispatchVars, engineVars, standaloneVars, faceVars, handVars, stale_at_start, vd>>

\* The camera is available again; a capture that was lost stays closed, since
\* only start() creates one.
CameraBack ==
    /\ ~dev.camera
    /\ dev' = [dev EXCEPT !.camera = TRUE]
    /\ UNCHANGED <<dispatchVars, engineVars, standaloneVars, faceVars, handVars, stale_at_start, vd>>

\* Lines 183-186 of the detection loop: running, the capture not opened: the
\* error is printed and the thread sleeps for a second.
FaceRetry ==
    /\ fd.running /\ ~dev.cap_opened /\ dev.face_pc = "head"
    /\ dev' = [dev EXCEPT !.face_pc = "sleep",
                          !.face_retries = Min({MaxRetries, dev.face_retries + 1})]
    /\ UNCHANGED <<dispatchVars, engineVars, standaloneVars, faceVars, handVars, stale_at_start, vd>>

\* Line 186: the sleep ends, `continue` takes the thread to the loop test.
FaceWake ==
    /\ dev.face_pc = "sleep"
    /\ dev' = [dev EXCEPT !.face_pc = "head"]
    /\ UNCHANGED <<dispatchVars, engineVars, standaloneVars, faceVars, handVars, stale_at_start, vd>>

\* VoiceDetector.start().
VoiceStart ==
    /\ ~vd.running
    /\ vd' = [vd EXCEPT !.running = TRUE]
    /\ dev' = [dev EXCEPT !.voice_pc = "head", !.voice_retries = 0]
    /\ UNCHANGED <<dispatchVars, engineVars, standaloneVars, faceVars, handVars, stale_at_start>>

\* VoiceDetector.stop(): running cleared, the listener thread ends.
VoiceStop ==
    /\ vd.running
    /\ vd' = [vd EXCEPT !.running = FALSE]
    /\ dev' = [dev EXCEPT !.voice_pc = "head", !.voice_retries = 0]
    /\ UNCHANGED <<dispatchVars, engineVars, standaloneVars, faceVars, handVars, stale_at_start>>

MicrophoneLost ==
    /\ dev.microphone
    /\ dev' = [dev EXCEPT !.microphone = FALSE]
    /\ UNCHANGED <<dispatchVars, engineVars, standaloneVars, faceVars, handVars, stale_at_start, vd>>

MicrophoneBack ==
    /\ ~dev.microphone
    /\ dev' = [dev EXCEPT !.microphone = TRUE]
    /\ UNCHANGED <<dispatchVars, engineVars, standaloneVars, faceVars, handVars, stale_at_start, vd>>

\* Lines 146-162 of the listen loop: running, opening the microphone raises
\* OSError: the error is printed and the thread sleeps for two seconds.
VoiceRetry ==
    /\ vd.running /\ ~dev.microphone /\ dev.voice_pc = "head"
    /\ dev' = [dev EXCEPT !.voice_pc = "sleep",
                          !.voice_retries = Min({MaxRetries, dev.voice_retries + 1})]
    /\ UNCHANGED <<dispatchVars, engineVars, standaloneVars, faceVars, handVars, stale_at_start, vd>>

\* Line 162: the sleep ends and the thread is back at the loop test.
VoiceWake ==
    /\ dev.voice_pc = "sleep"
    /\ dev' = [dev EXCEPT !.voice_pc = "head"]
    /\ UNCHANGED <<dispatchVars, engineVars, standaloneVars, faceVars, handVars, stale_at_start, vd>>

DeviceFrameLoop == \E f \in DeviceFramePool : FaceFrame(f)

NextDevice ==
    \/ FaceStart \/ FaceStop \/ DeviceFrameLoop \/ CameraLost \/ CameraBack
    \/ FaceRetry \/ FaceWake
    \/ VoiceStart \/ VoiceStop \/ MicrophoneLost \/ MicrophoneBack
    \/ VoiceRetry \/ VoiceWake

\* The two loop threads are scheduled again and again: a loop that can take its
\* next step takes it.
SpecDevice ==
    /\ InitDevice /\ [][NextDevice]_vars
    /\ WF_vars(FaceRetry) /\ WF_vars(FaceWake)
    /\ WF_vars(VoiceRetry) /\ WF_vars(VoiceWake)

----------------------------------------------------------------------------
(* Claims checked under SpecDevice                                         *)

\* C20 (as claimed): a running detector whose device stays unavailable gives up
\* after a bounded number of attempts: a running FacialDetector whose capture
\* is not opened comes to have running False, and a running VoiceDetector
\* without microphone comes to have running False unless the microphone returns.
C20_DeviceLossDisables ==
    /\ (fd.running /\ ~dev.cap_opened) ~> ~fd.running
    /\ (vd.running /\ ~dev.microphone) ~> (~vd.running \/ dev.microphone)


----------------------------------------------------------------------------
(***************************************************************************)
(* VoiceDetector on its own: the listener thread hands one utterance after *)
(* the other to _process_speech.  A transcript is a sequence of tokens,    *)
(* the pieces str.split() cuts it into: a word and the punctuation Whisper *)
(* attached to its end.                                                    *)
(***************************************************************************)
MaxWords == 2

UI_KEYWORDS ==
    {"start", "stop", "config", "configuration", "settings", "bindings", "open",
     "click", "press", "engine", "window", "gui", "ui"}

TranscriptWords == {"Stop", "go", "Go", "left", "settings"}

TranscriptPunct == {"", ","}

Token(w, p) == [word |-> w, punct |-> p]

Tokens == {Token(w, p) : w \in TranscriptWords, p \in TranscriptPunct}

Transcripts == UNION {[1..n -> Tokens] : n \in 0..MaxWords}

\* The trigger words a VoiceDetector can be constructed with.
TriggerWordLists == {{}, {"Go"}, {"go", "stop"}, {"go", "left"}}

\* VoiceDetector.__init__: the trigger words are kept in lower case.
VoiceDetectorFor(words) ==
    [running |-> FALSE, system_trigger_words |-> {Lower(w) : w \in words}]

\* str.lower() on the transcript: every word in lower case, punctuation kept.
LowerText(t) == [i \in DOMAIN t |-> Token(Lower(t[i].word), t[i].punct)]

\* str.strip(" .,!?...") on the transcript: the punctuation at its end goes,
\* the punctuation inside it stays.
StripText(t) ==
    IF t = <<>> THEN t ELSE [t EXCEPT ![Len(t)] = Token(t[Len(t)].word, "")]

cleaned_text(t) == StripText(LowerText(t))

\* The string a token of the split text is: a member of a set of words only
\* when no punctuation is attached to it.
TokenIn(k, S) == k.punct = "" /\ k.word \in S

\* words_set.intersection(UI_KEYWORDS) is not empty.
found_ui_keywords(c) == \E i \in DOMAIN c : TokenIn(c[i], UI_KEYWORDS)

\* word.strip(".,!?...") on one token of the split text.
cleaned_word(k) == k.word

RECURSIVE TriggerEvents(_, _)
\* The loop over cleaned_text.split(): one "voice" event per token whose
\* cleaned word is a system trigger word, in the order of the text.
TriggerEvents(c, words) ==
    IF c = <<>> THEN <<>>
    ELSE (IF cleaned_word(Head(c)) \in words
          THEN <<[type |-> "voice", data |-> <<Token(cleaned_word(Head(c)), "")>>]>>
          ELSE <<>>) \o TriggerEvents(Tail(c), words)

\* The events one _process_speech call hands to the event handler when the
\* recognizer returned transcript t.
ProcessSpeech(v, t) ==
    LET c == cleaned_text(t)
    IN  IF c = <<>> THEN <<>>
        ELSE IF found_ui_keywords(c) THEN <<[type |-> "ui_command", data |-> c]>>
        ELSE TriggerEvents(c, v.system_trigger_words)

\* What recognize_whisper does with an utterance: it returns a transcript or
\* raises one of the errors _process_speech catches.
RecognitionErrors == {"UnknownValueError", "RequestError", "Exception"}

\* The except clauses of _process_speech: a message is printed, the detector
\* is left as it was.
AfterRecognitionErrorStopped(v, err) == [v EXCEPT !.running = FALSE]

AfterRecognitionError(v, err) == v

NothingHeard == [outcome |-> None, text |-> <<>>, events |-> <<>>, failed_before |-> FALSE]

\* No engine events, no facial and no hand detector: the state the rest of
\* the program is in while one standalone component is looked at.
NoEngineNoCamera ==
    /\ EngineConstructed(ConfigEmpty)
    /\ os_calls = NoCalls
    /\ ran = <<>>
    /\ last_ev = NoEvent
    /\ sustained = {}
    /\ fd = None
    /\ watch = None
    /\ seen_true = 0
    /\ run = 0
    /\ run_from_stable = FALSE
    /\ face_events = <<>>
    /\ blink_obs = None
    /\ noface_run = 0
    /\ last_edge = None
    /\ hd = None
    /\ hand_events = <<>>
    /\ hand_obs = NoHandSeen
    /\ stale_at_start = NotStale

InitVoice ==
    /\ NoEngineNoCamera
    /\ \E words \in TriggerWordLists : vd = VoiceDetectorFor(words)
    /\ dev = DevicesReady
    /\ voice_obs = NothingHeard
    /\ fc = None
    /\ geo = None
    /\ gui = None

\* One pass of _listen_loop in which recognizer.listen returned audio: the
\* utterance goes to _process_speech, the recognizer returns transcript t or
\* raises, and the loop is back at its head.
VoiceUtterance(outcome, t) ==
    /\ vd.running
    /\ dev.microphone
    /\ dev.voice_pc = "head"
    /\ vd' = IF outcome = "ok" THEN vd ELSE AfterRecognitionError(vd, outcome)
    /\ voice_obs' = [outcome |-> outcome,
                     text |-> IF outcome = "ok" THEN t ELSE <<>>,
                     events |-> IF outcome = "ok" THEN ProcessSpeech(vd, t) ELSE <<>>,
                     failed_before |-> voice_obs.failed_before \/ voice_obs.outcome \in RecognitionErrors]
    /\ UNCHANGED <<dispatchVars, engineVars, faceVars, handVars, stale_at_start, dev, fc, geo, gui>>

VoiceRecognized == \E t \in Transcripts : VoiceUtterance("ok", t)

VoiceNotRecognized == \E err \in RecognitionErrors : VoiceUtterance(err, <<>>)

NextVoice == VoiceStart \/ VoiceStop \/ VoiceRecognized \/ VoiceNotRecognized

SpecVoice == InitVoice /\ [][NextVoice]_vars

\* The tokens of a transcript that are the word w, whatever their case and
\* whatever punctuation follows them.
Spoken(t, w) == {i \in DOMAIN t : Lower(t[i].word) = w}

ContainsUIKeyword(t) == \E w \in UI_KEYWORDS : Spoken(t, w) # {}

RECURSIVE SpokenTriggers(_, _)
\* The registered trigger words of a transcript, one per occurrence, in the
\* order they were spoken.
SpokenTriggers(t, words) ==
    IF t = <<>> THEN <<>>
    ELSE (IF Lower(Head(t).word) \in words THEN <<Lower(Head(t).word)>> ELSE <<>>)
         \o SpokenTriggers(Tail(t), words)

VoiceEventWords(es) == [i \in DOMAIN es |-> es[i].data[1].word]

\* The listener can take the next utterance: the guard of a pass of the loop.
ListenerGoesOn(v, d) == v.running /\ d.microphone /\ d.voice_pc = "head"

\* C21: an utterance the recognizer fails on (unintelligible, request error,
\* any other exception) produces no event and leaves the detector running,
\* its listener ready for the next utterance; an utterance recognized after
\* such a failure still produces the event of each trigger word in it.
C21_RecognitionFailureIsSkipped ==
    [][/\ (voice_obs' # voice_obs /\ voice_obs'.outcome \in RecognitionErrors) =>
              /\ voice_obs'.events = <<>>
              /\ ListenerGoesOn(vd', dev')
       /\ (voice_obs' # voice_obs /\ voice_obs'.outcome = "ok" /\ voice_obs'.failed_before
               /\ ~ContainsUIKeyword(voice_obs'.text)) =>
              /\ \A i \in DOMAIN voice_obs'.events : voice_obs'.events[i].type = "voice"
              /\ VoiceEventWords(voice_obs'.events)
                    = SpokenTriggers(voice_obs'.text, vd'.system_trigger_words)]_vars

\* A trigger word recognized, and its event emitted, after a failed recognition.
C21_Witness ==
    /\ voice_obs.outcome = "ok"
    /\ voice_obs.failed_before
    /\ vd.running
    /\ Len(voice_obs.events) = 1
    /\ voice_obs.events[1].type = "voice"

\* C30: an utterance with at least one UI keyword in it produces exactly one
\* event, "ui_command" with the whole cleaned phrase, and no "voice" event;
\* an utterance without UI keywords produces one "voice" event per occurrence
\* of a registered trigger word, in the order they were spoken.
C30_UICommandOrTriggers ==
    voice_obs.outcome = "ok" =>
        IF ContainsUIKeyword(voice_obs.text)
        THEN voice_obs.events
                = <<[type |-> "ui_command", data |-> cleaned_text(voice_obs.text)]>>
        ELSE /\ \A i \in DOMAIN voice_obs.events : voice_obs.events[i].type = "voice"
             /\ VoiceEventWords(voice_obs.events)
                   = SpokenTriggers(voice_obs.text, vd.system_trigger_words)

----------------------------------------------------------------------------
(***************************************************************************)
(* SpecRatio: the ratio helpers of the four copies of the facial code,     *)
(* applied to the landmark distances of one frame.  A distance is a whole  *)
(* number of units; a ratio is the fraction the division leaves, or the    *)
(* error the division raises.                                              *)
(***************************************************************************)
MaxDist == 2

Distances == 0..MaxDist

Ratio(n, d) == [raised |-> "", num |-> n, den |-> d]

ZeroDivisionError == [raised |-> "ZeroDivisionError", num |-> 0, den |-> 0]

\* A ratio the copy does not compute.
NoRatio == [raised |-> "", num |-> 0, den |-> 0]

\* Python's / on floats.
Divide(n, d) == IF d = 0 THEN ZeroDivisionError ELSE Ratio(n, d)

\* FacialDetector._calculate_ear, _calculate_mar, _calculate_err.
detector_calculate_ear(v1, v2, h) == IF h # 0 THEN Divide(v1 + v2, 2 * h) ELSE Ratio(1, 1)
detector_calculate_mar(vert_dist, horz_dist) ==
    IF horz_dist # 0 THEN Divide(vert_dist, horz_dist) ELSE Ratio(0, 1)
detector_calculate_err(vert_dist, horz_dist) ==
    IF horz_dist # 0 THEN Divide(vert_dist, horz_dist) ELSE Ratio(0, 1)

\* accessicommand/facial_controller.py: calculate_ear, calculate_mar, calculate_err.
controller_calculate_ear(v1, v2, h) == IF h = 0 THEN Ratio(1, 1) ELSE Divide(v1 + v2, 2 * h)
controller_calculate_mar(vertical_dist, horizontal_dist) ==
    IF horizontal_dist = 0 THEN Ratio(0, 1) ELSE Divide(vertical_dist, horizontal_dist)
controller_calculate_err(vertical_dist, horizontal_dist) ==
    IF horizontal_dist = 0 THEN Ratio(0, 1) ELSE Divide(vertical_dist, horizontal_dist)

\* Hardcoded Implementations/facial_controller.py: the same three helpers.
hardcoded_calculate_ear(v1, v2, h) == IF h = 0 THEN Ratio(1, 1) ELSE Divide(v1 + v2, 2 * h)
hardcoded_calculate_mar(vertical_dist, horizontal_dist) ==
    IF horizontal_dist = 0 THEN Ratio(0, 1) ELSE Divide(vertical_dist, horizontal_dist)
hardcoded_calculate_err(vertical_dist, horizontal_dist) ==
    IF horizontal_dist = 0 THEN Ratio(0, 1) ELSE Divide(vertical_dist, horizontal_dist)

\* facial_control/facial_controller.py: calculate_ear and calculate_mouth_open
\* (outer and inner lip distance over twice the mouth width); it has no
\* eyebrow ratio.
facial_control_calculate_ear(A, B, C) == Divide(A + B, 2 * C)
calculate_mouth_open(outer_vertical, inner_vertical, horizontal) ==
    Divide(outer_vertical + inner_vertical, 2 * horizontal)

FacialCopies == {"facial_detector", "facial_controller", "hardcoded", "facial_control"}

\* The distances of one frame: the two eye heights and the eye width, the
\* mouth height and width, the eyebrow height and width.
Geometries ==
    [v1 : {1}, v2 : Distances, h : Distances,
     mouth_vert : {1}, mouth_horz : Distances,
     brow_vert : {1}, brow_horz : Distances]

\* What copy c of the helpers returns on the distances g.
RatiosOf(c, g) ==
    CASE c = "facial_detector" ->
            [ear |-> detector_calculate_ear(g.v1, g.v2, g.h),
             mar |-> detector_calculate_mar(g.mouth_vert, g.mouth_horz),
             err |-> detector_calculate_err(g.brow_vert, g.brow_horz)]
      [] c = "facial_controller" ->
            [ear |-> controller_calculate_ear(g.v1, g.v2, g.h),
             mar |-> controller_calculate_mar(g.mouth_vert, g.mouth_horz),
             err |-> controller_calculate_err(g.brow_vert, g.brow_horz)]
      [] c = "hardcoded" ->
            [ear |-> hardcoded_calculate_ear(g.v1, g.v2, g.h),
             mar |-> hardcoded_calculate_mar(g.mouth_vert, g.mouth_horz),
             err |-> hardcoded_calculate_err(g.brow_vert, g.brow_horz)]
      [] c = "facial_control" ->
            [ear |-> facial_control_calculate_ear(g.v1, g.v2, g.h),
             mar |-> calculate_mouth_open(g.mouth_vert, g.mouth_vert, g.mouth_horz),
             err |-> NoRatio]

NoGeometry ==
    [copy |-> None, d |-> [v1 |-> 1, v2 |-> 1, h |-> 1, mouth_vert |-> 1, mouth_horz |-> 1,
                           brow_vert |-> 1, brow_horz |-> 1],
     out |-> [ear |-> NoRatio, mar |-> NoRatio, err |-> NoRatio]]

InitRatio ==
    /\ NoEngineNoCamera
    /\ vd = None
    /\ dev = None
    /\ voice_obs = None
    /\ fc = None
    /\ geo = NoGeometry
    /\ gui = None

\* One frame's distances go through the helpers of copy c.
ComputeRatios(c) ==
    /\ \E g \in Geometries : geo' = [copy |-> c, d |-> g, out |-> RatiosOf(c, g)]
    /\ UNCHANGED <<dispatchVars, engineVars, faceVars, handVars, stale_at_start, deviceVars,
                   voice_obs, fc, gui>>

DetectorRatios == ComputeRatios("facial_detector")
ControllerRatios == ComputeRatios("facial_controller")
HardcodedRatios == ComputeRatios("hardcoded")
FacialControlRatios == ComputeRatios("facial_control")

NextRatio == DetectorRatios \/ ControllerRatios \/ HardcodedRatios \/ FacialControlRatios

SpecRatio == InitRatio /\ [][NextRatio]_vars

\* C25: in every copy of the facial code the ratio helpers raise nothing; the
\* eye-aspect-ratio is 1.0 when the eye width is 0, the mouth ratio and the
\* eyebrow ratio are 0.0 when their widths are 0.
C25_RatiosTotal ==
    geo.copy # None =>
        /\ ZeroDivisionError \notin {geo.out.ear, geo.out.mar, geo.out.err}
        /\ geo.d.h = 0 => geo.out.ear = Ratio(1, 1)
        /\ geo.d.mouth_horz = 0 => geo.out.mar = Ratio(0, 1)
        /\ (geo.d.brow_horz = 0 /\ geo.out.err # NoRatio) => geo.out.err = Ratio(0, 1)

----------------------------------------------------------------------------
(***************************************************************************)
(* SpecController: the facial controller script that keeps the keys it     *)
(* holds in keys_currently_pressed (Hardcoded Implementations/             *)
(* facial_controller.py): its main loop, one frame per step, the keyboard  *)
(* pyautogui drives, and the ways out of the loop.                         *)
(***************************************************************************)
MaxControllerCounter == 3   \* the frame counters of the script are followed up to this value
MaxUnmatched == 3           \* keyDown calls without a keyUp are counted up to this value

CONSEC_FRAMES_BLINK == 2
CONSEC_FRAMES_MOUTH == 3
CONSEC_FRAMES_EYEBROW == 3
CONSEC_FRAMES_HEAD_TILT == 2
BOTH_EYES_CLOSED_FRAMES == 2

\* The keys of the actions dictionary, in its order, and the keys pyautogui
\* is called with.
ActionKeys == <<"a", "d", "j", "k", "space">>
ControllerKeys == {ActionKeys[i] : i \in DOMAIN ActionKeys}
KeyboardKeys == ControllerKeys \cup {"shift"}

\* The keyboard as pyautogui's calls leave it: the keys that are down (the
\* last call for the key was a keyDown) and, per key, the keyDown calls no
\* keyUp has answered yet.
KeyboardIdle == [down |-> {}, unmatched |-> [k \in KeyboardKeys |-> 0]]

\* pyautogui.keyDown(key)
keyDown(kb, key) ==
    [down |-> kb.down \cup {key},
     unmatched |-> [kb.unmatched EXCEPT ![key] = Min({MaxUnmatched, @ + 1})]]

\* pyautogui.keyUp(key)
keyUp(kb, key) ==
    [down |-> kb.down \ {key},
     unmatched |-> [kb.unmatched EXCEPT ![key] = IF @ > 0 THEN @ - 1 ELSE 0]]

\* The globals of the script before the first frame.
FacialController ==
    [pc |-> "loop",
     left_blink_counter |-> 0,
     right_blink_counter |-> 0,
     mouth_open_counter |-> 0,
     eyebrow_raise_counter |-> 0,
     head_tilt_left_counter |-> 0,
     head_tilt_right_counter |-> 0,
     both_eyes_closed_counter |-> 0,
     left_eye_previously_closed |-> FALSE,
     right_eye_previously_closed |-> FALSE,
     left_blink_age |-> BlinkAgeCap,
     right_blink_age |-> BlinkAgeCap,
     names_defined |-> FALSE,
     keys_currently_pressed |-> {},
     keyboard |-> KeyboardIdle,
     exit_by |-> None,
     held_at_exit |-> {},
     exit_keyups |-> [k \in KeyboardKeys |-> 0]]

\* perform_shift_key_combo(key)
perform_shift_key_combo(kb, key) ==
    keyUp(keyUp(keyDown(keyDown(keyDown(kb, key), "shift"), key), key), "shift")

\* One turn of the loop of update_keys, for one key of the dictionary.
UpdateKey(c, key, should_press) ==
    IF should_press /\ key \notin c.keys_currently_pressed
    THEN [c EXCEPT !.keyboard = keyDown(@, key),
                   !.keys_currently_pressed = @ \cup {key}]
    ELSE IF ~should_press /\ key \in c.keys_currently_pressed
    THEN [c EXCEPT !.keyboard = keyUp(@, key),
                   !.keys_currently_pressed = @ \ {key}]
    ELSE c

RECURSIVE UpdateKeysFrom(_, _, _)
UpdateKeysFrom(c, actions, i) ==
    IF i > Len(ActionKeys) THEN c
    ELSE UpdateKeysFrom(UpdateKey(c, ActionKeys[i], actions[ActionKeys[i]]), actions, i + 1)

\* update_keys(actions_to_perform)
update_keys(c, actions) == UpdateKeysFrom(c, actions, 1)

RECURSIVE ReleaseEach(_, _)
\* The loop of release_all_keys: one keyUp per key of the list.
ReleaseEach(c, keys) ==
    IF keys = {} THEN c
    ELSE LET key == CHOOSE k \in keys : TRUE
         IN ReleaseEach([c EXCEPT !.keyboard = keyUp(@, key),
                                  !.exit_keyups[key] = @ + 1],
                        keys \ {key})

ReleaseAllKeysKeepsSet(c) == ReleaseEach(c, c.keys_currently_pressed)

\* release_all_keys()
release_all_keys(c) ==
    [ReleaseEach(c, c.keys_currently_pressed) EXCEPT !.keys_currently_pressed = {}]

\* The finally clause of the script, reached by `break` or through the
\* except clause: the way out of the loop. The observer notes the keys the
\* set held when release_all_keys was called.
LeaveLoop(c, why) ==
    [release_all_keys([c EXCEPT !.held_at_exit = c.keys_currently_pressed])
        EXCEPT !.pc = "exited", !.exit_by = why]

\* The thresholds of the script, in the units of the frames.
EAR_THRESHOLD == 20
MAR_THRESHOLD == 35
ERR_THRESHOLD == 134
HEAD_TILT_LEFT_MIN == 0 - 100
HEAD_TILT_LEFT_MAX == 0 - 160
HEAD_TILT_RIGHT_MIN == 100
HEAD_TILT_RIGHT_MAX == 160

\* counter += 1 / max(0, counter - 1)
ControllerCount(counter, raw) == IF raw THEN counter + 1 ELSE CountDown(counter)

\* The body of the loop up to and including update_keys(actions), on frame f.
\* Without landmarks the counters stay as they are and every action is False.
ControllerStep(c, f) ==
    LET face == f.landmarks
        left_closed == face /\ f.ear_left_val < EAR_THRESHOLD
        right_closed == face /\ f.ear_right_val < EAR_THRESHOLD
        lbc == IF ~face THEN c.left_blink_counter
               ELSE IF left_closed THEN c.left_blink_counter + 1 ELSE 0
        rbc == IF ~face THEN c.right_blink_counter
               ELSE IF right_closed THEN c.right_blink_counter + 1 ELSE 0
        left_eye_closed_state == left_closed /\ lbc >= CONSEC_FRAMES_BLINK
        right_eye_closed_state == right_closed /\ rbc >= CONSEC_FRAMES_BLINK
        left_age == Min({BlinkAgeCap, c.left_blink_age + f.dt})
        right_age == Min({BlinkAgeCap, c.right_blink_age + f.dt})
        left_eye_blinked == /\ left_eye_closed_state /\ ~c.left_eye_previously_closed
                            /\ left_age > blink_cooldown
        right_eye_blinked == /\ right_eye_closed_state /\ ~c.right_eye_previously_closed
                             /\ right_age > blink_cooldown
        mouth == IF face THEN ControllerCount(c.mouth_open_counter, f.mar_val > MAR_THRESHOLD)
                 ELSE c.mouth_open_counter
        eyes == IF face THEN ControllerCount(c.both_eyes_closed_counter,
                                             left_closed /\ right_closed)
                ELSE c.both_eyes_closed_counter
        brows == IF face THEN ControllerCount(c.eyebrow_raise_counter, f.avg_err > ERR_THRESHOLD)
                 ELSE c.eyebrow_raise_counter
        in_left == /\ HEAD_TILT_LEFT_MIN >= f.head_tilt_angle
                   /\ f.head_tilt_angle >= HEAD_TILT_LEFT_MAX
        in_right == /\ HEAD_TILT_RIGHT_MIN <= f.head_tilt_angle
                    /\ f.head_tilt_angle <= HEAD_TILT_RIGHT_MAX
        tl == IF ~face THEN c.head_tilt_left_counter
              ELSE IF in_left THEN c.head_tilt_left_counter + 1
              ELSE IF in_right THEN 0 ELSE CountDown(c.head_tilt_left_counter)
        tr == IF ~face THEN c.head_tilt_right_counter
              ELSE IF in_left THEN 0
              ELSE IF in_right THEN c.head_tilt_right_counter + 1
              ELSE CountDown(c.head_tilt_right_counter)
        head_tilt_left_state == face /\ tl >= CONSEC_FRAMES_HEAD_TILT
        head_tilt_right_state == face /\ tr >= CONSEC_FRAMES_HEAD_TILT
        actions == [k \in ControllerKeys |->
                       CASE k = "a" -> head_tilt_left_state
                         [] k = "d" -> ~head_tilt_left_state /\ head_tilt_right_state
                         [] k = "j" -> face /\ brows >= CONSEC_FRAMES_EYEBROW
                         [] k = "k" -> face /\ mouth >= CONSEC_FRAMES_MOUTH
                         [] k = "space" -> face /\ eyes >= BOTH_EYES_CLOSED_FRAMES]
        blinked == [c EXCEPT
            !.left_blink_counter = lbc,
            !.right_blink_counter = rbc,
            !.left_eye_previously_closed = IF face THEN left_eye_closed_state ELSE @,
            !.right_eye_previously_closed = IF face THEN right_eye_closed_state ELSE @,
            !.left_blink_age = IF left_eye_blinked THEN 0 ELSE left_age,
            !.right_blink_age = IF right_eye_blinked THEN 0 ELSE right_age,
            !.mouth_open_counter = mouth,
            !.both_eyes_closed_counter = eyes,
            !.eyebrow_raise_counter = brows,
            !.head_tilt_left_counter = tl,
            !.head_tilt_right_counter = tr,
            !.names_defined = @ \/ face,
            !.keyboard = IF left_eye_blinked /\ ~right_eye_blinked
                         THEN perform_shift_key_combo(@, "a")
                         ELSE IF right_eye_blinked /\ ~left_eye_blinked
                         THEN perform_shift_key_combo(@, "d")
                         ELSE @]
    IN update_keys(blinked, actions)

ControllerCounters(c) ==
    {c.left_blink_counter, c.right_blink_counter, c.mouth_open_counter,
     c.eyebrow_raise_counter, c.head_tilt_left_counter, c.head_tilt_right_counter,
     c.both_eyes_closed_counter}

ControllerFramePool ==
    {Frame(TRUE, 30, 30, 0, 0, 0, BlinkAgeCap),
     Frame(TRUE, 10, 30, 0, 0, 0, BlinkAgeCap),
     Frame(TRUE, 30, 10, 0, 0, 0, BlinkAgeCap),
     Frame(TRUE, 10, 10, 0, 0, 0, BlinkAgeCap),
     Frame(TRUE, 30, 30, 0, 0, 0 - 130, BlinkAgeCap),
     Frame(TRUE, 10, 30, 0, 0, 0 - 130, BlinkAgeCap),
     Frame(TRUE, 30, 10, 0, 0, 130, BlinkAgeCap),
     Frame(TRUE, 30, 30, 50, 150, 0, BlinkAgeCap),
     Frame(FALSE, 10, 10, 50, 150, 130, BlinkAgeCap)}

InitController ==
    /\ NoEngineNoCamera
    /\ vd = None
    /\ dev = None
    /\ voice_obs = None
    /\ geo = None
    /\ gui = None
    /\ fc = FacialController

\* One pass of the loop on frame f. The status display that follows
\* update_keys reads both_eyes_closed_state and avg_err, which only a frame
\* with a face assigns: before the first such frame the pass ends in a
\* NameError, caught by the except clause.
ControllerFrame(f) ==
    /\ fc.pc = "loop"
    /\ \A n \in ControllerCounters(ControllerStep(fc, f)) : n <= MaxControllerCounter
    /\ fc' = IF ControllerStep(fc, f).names_defined THEN ControllerStep(fc, f)
             ELSE LeaveLoop(ControllerStep(fc, f), "NameError")
    /\ UNCHANGED <<dispatchVars, engineVars, faceVars, handVars, stale_at_start, deviceVars,
                   voice_obs, geo, gui>>

ControllerLoop == \E f \in ControllerFramePool : ControllerFrame(f)

\* cv2.waitKey returned 'q' at the end of a pass: break.
QuitKey ==
    /\ fc.pc = "loop"
    /\ fc.names_defined
    /\ fc' = LeaveLoop(fc, "quit")
    /\ UNCHANGED <<dispatchVars, engineVars, faceVars, handVars, stale_at_start, deviceVars,
                   voice_obs, geo, gui>>

\* An exception raised by the frame processing at the head of a pass, before
\* any key is touched (cv2.flip, cv2.cvtColor, face_mesh.process).
FrameException ==
    /\ fc.pc = "loop"
    /\ fc' = LeaveLoop(fc, "Exception")
    /\ UNCHANGED <<dispatchVars, engineVars, faceVars, handVars, stale_at_start, deviceVars,
                   voice_obs, geo, gui>>

NextController == ControllerLoop \/ QuitKey \/ FrameException

SpecController == InitController /\ [][NextController]_vars

\* C22: on every way out of the main loop (quit key, exception in a frame)
\* release_all_keys has run: keys_currently_pressed is empty, one keyUp was
\* issued by it for each key the set held, none for any other key.
C22_ExitReleasesAllKeys ==
    fc.pc = "exited" =>
        /\ fc.keys_currently_pressed = {}
        /\ \A k \in KeyboardKeys :
              fc.exit_keyups[k] = IF k \in fc.held_at_exit THEN 1 ELSE 0

\* C22 witness: the loop left through an exception with two keys in the set.
C22_Witness ==
    /\ fc.pc = "exited"
    /\ fc.exit_by = "Exception"
    /\ Cardinality(fc.held_at_exit) = 2

\* C23: at the end of every frame a key is in keys_currently_pressed exactly
\* when it is down on the keyboard, and then one keyDown for it is unmatched.
C23_SetMatchesKeyboard ==
    fc.pc = "loop" =>
        \A k \in ControllerKeys :
            /\ k \in fc.keys_currently_pressed <=> k \in fc.keyboard.down
            /\ k \in fc.keys_currently_pressed => fc.keyboard.unmatched[k] = 1

\* C32: in every state of the loop the mouth-open, both-eyes-closed,
\* eyebrow-raise and head-tilt counters of the script lie between 0 and the
\* frame threshold of their condition, so that a stable condition is not
\* stable any more after threshold raw-false frames.
C32_CountersWithinThreshold ==
    fc.pc = "loop" =>
        /\ fc.mouth_open_counter \in 0..CONSEC_FRAMES_MOUTH
        /\ fc.both_eyes_closed_counter \in 0..BOTH_EYES_CLOSED_FRAMES
        /\ fc.eyebrow_raise_counter \in 0..CONSEC_FRAMES_EYEBROW
        /\ fc.head_tilt_left_counter \in 0..CONSEC_FRAMES_HEAD_TILT
        /\ fc.head_tilt_right_counter \in 0..CONSEC_FRAMES_HEAD_TILT

----------------------------------------------------------------------------
(***************************************************************************)
(* SpecChain: the facial controller script that holds at most one key,     *)
(* with or without shift, chosen by an if/elif chain over the conditions   *)
(* (key_held, shift_held, release_key: facial_controller.py): its loop,    *)
(* one frame per step, and the keyboard pyautogui drives.                  *)
(***************************************************************************)
MaxChainCounter == 5   \* the frame counters of this script are followed up to this value

HEAD_TILT_THRESHOLD == 30
ChainERR_THRESHOLD == 140
ChainCONSEC_FRAMES_HEAD_TILT == 5

\* The globals of the script before the first frame. face, branch and
\* noface_frames note what the last pass saw: whether the frame had a face,
\* the branch of the chain it took, the frames without a face in a row.
ChainController ==
    [pc |-> "loop",
     left_blink_counter |-> 0,
     right_blink_counter |-> 0,
     mouth_open_counter |-> 0,
     eyebrow_raise_counter |-> 0,
     head_tilt_left_counter |-> 0,
     head_tilt_right_counter |-> 0,
     key_held |-> None,
     shift_held |-> FALSE,
     names_defined |-> FALSE,
     keyboard |-> KeyboardIdle,
     face |-> FALSE,
     branch |-> "none",
     noface_frames |-> 0]

\* release_key()
release_key(c) ==
    LET key_released == IF c.key_held # None
                  THEN [c EXCEPT !.keyboard = keyUp(@, c.key_held), !.key_held = None]
                  ELSE c
    IN IF key_released.shift_held
       THEN [key_released EXCEPT !.keyboard = keyUp(@, "shift"), !.shift_held = FALSE]
       ELSE key_released

\* The body of a branch that holds one key: if key_held != key: release_key();
\* keyDown(key); key_held = key.
HoldKey(c, key) ==
    IF c.key_held # key
    THEN [release_key(c) EXCEPT !.keyboard = keyDown(@, key), !.key_held = key]
    ELSE c

\* The body of a branch that holds shift and a key: if key_held != key or not
\* shift_held: release_key(); keyDown('shift'); keyDown(key); key_held = key;
\* shift_held = True.
HoldShiftKey(c, key) ==
    IF c.key_held # key \/ ~c.shift_held
    THEN [release_key(c) EXCEPT !.keyboard = keyDown(keyDown(@, "shift"), key),
                                !.key_held = key,
                                !.shift_held = TRUE]
    ELSE c

\* The branch the if/elif chain takes for the states of one frame.
SelectedBranch(tilt_left, tilt_right, left_eye, right_eye, brows, mouth) ==
    CASE tilt_left /\ ~tilt_right -> "tilt_left"
      [] ~(tilt_left /\ ~tilt_right) /\ tilt_right /\ ~tilt_left -> "tilt_right"
      [] OTHER ->
           IF left_eye /\ ~right_eye THEN "left_eye"
           ELSE IF right_eye /\ ~left_eye THEN "right_eye"
           ELSE IF brows THEN "brows"
           ELSE IF left_eye /\ right_eye THEN "both_eyes"
           ELSE IF mouth THEN "mouth"
           ELSE "none"

\* What the taken branch does to the keys.
KeyLogic(c, b) ==
    CASE b = "tilt_left" -> HoldKey(c, "a")
      [] b = "tilt_right" -> HoldKey(c, "d")
      [] b = "left_eye" -> HoldShiftKey(c, "a")
      [] b = "right_eye" -> HoldShiftKey(c, "d")
      [] b = "brows" -> HoldKey(c, "j")
      [] b = "both_eyes" -> HoldKey(c, "k")
      [] b = "mouth" -> HoldKey(c, "space")
      [] OTHER -> release_key(c)

\* The body of the loop on frame f. Everything that counts or touches a key
\* is inside `if results.multi_face_landmarks:`; a frame without a face goes
\* straight to the display.
ChainStep(c, f) ==
    IF ~f.landmarks
    THEN [c EXCEPT !.face = FALSE,
                   !.branch = "none",
                   !.noface_frames = Min({MaxChainCounter, @ + 1})]
    ELSE
    LET rbc == IF f.ear_right_val < EAR_THRESHOLD THEN c.right_blink_counter + 1 ELSE 0
        lbc == IF f.ear_left_val < EAR_THRESHOLD THEN c.left_blink_counter + 1 ELSE 0
        mouth == ControllerCount(c.mouth_open_counter, f.mar_val > MAR_THRESHOLD)
        brows == ControllerCount(c.eyebrow_raise_counter, f.avg_err > ChainERR_THRESHOLD)
        tl == ControllerCount(c.head_tilt_left_counter,
                              f.head_tilt_angle < 0 - HEAD_TILT_THRESHOLD)
        tr == ControllerCount(c.head_tilt_right_counter,
                              /\ ~(f.head_tilt_angle < 0 - HEAD_TILT_THRESHOLD)
                              /\ f.head_tilt_angle > HEAD_TILT_THRESHOLD)
        b == SelectedBranch(tl >= ChainCONSEC_FRAMES_HEAD_TILT,
                            tr >= ChainCONSEC_FRAMES_HEAD_TILT,
                            lbc >= CONSEC_FRAMES_BLINK,
                            rbc >= CONSEC_FRAMES_BLINK,
                            brows >= CONSEC_FRAMES_EYEBROW,
                            mouth >= CONSEC_FRAMES_MOUTH)
        counted == [c EXCEPT !.right_blink_counter = rbc,
                             !.left_blink_counter = lbc,
                             !.mouth_open_counter = mouth,
                             !.eyebrow_raise_counter = brows,
                             !.head_tilt_left_counter = tl,
                             !.head_tilt_right_counter = tr,
                             !.names_defined = TRUE,
                             !.face = TRUE,
                             !.branch = b,
                             !.noface_frames = 0]
    IN KeyLogic(counted, b)

ChainCounters(c) ==
    {c.left_blink_counter, c.right_blink_counter, c.mouth_open_counter,
     c.eyebrow_raise_counter, c.head_tilt_left_counter, c.head_tilt_right_counter}

ChainFramePool ==
    {Frame(TRUE, 30, 30, 0, 0, 0, BlinkAgeCap),
     Frame(TRUE, 10, 30, 0, 0, 0, BlinkAgeCap),
     Frame(TRUE, 30, 10, 0, 0, 0, BlinkAgeCap),
     Frame(TRUE, 10, 10, 0, 0, 0, BlinkAgeCap),
     Frame(TRUE, 30, 30, 0, 0, 0 - 40, BlinkAgeCap),
     Frame(TRUE, 10, 30, 0, 0, 0 - 40, BlinkAgeCap),
     Frame(TRUE, 30, 30, 0, 0, 40, BlinkAgeCap),
     Frame(TRUE, 30, 30, 50, 0, 0, BlinkAgeCap),
     Frame(TRUE, 30, 30, 0, 150, 0, BlinkAgeCap),
     Frame(FALSE, 10, 10, 50, 150, 40, BlinkAgeCap)}

InitChain ==
    /\ NoEngineNoCamera
    /\ vd = None
    /\ dev = None
    /\ voice_obs = None
    /\ geo = None
    /\ gui = None
    /\ fc = ChainController

\* One pass of the loop on frame f. The status display reads avg_err, which
\* only a frame with a face assigns: before the first such frame the pass ends
\* in a NameError nothing catches, and the script ends without release_key().
ChainFrame(f) ==
    /\ fc.pc = "loop"
    /\ \A n \in ChainCounters(ChainStep(fc, f)) : n <= MaxChainCounter
    /\ fc' = IF ChainStep(fc, f).names_defined THEN ChainStep(fc, f)
             ELSE [ChainStep(fc, f) EXCEPT !.pc = "NameError"]
    /\ UNCHANGED <<dispatchVars, engineVars, faceVars, handVars, stale_at_start, deviceVars,
                   voice_obs, geo, gui>>

ChainLoop == \E f \in ChainFramePool : ChainFrame(f)

\* cv2.waitKey returned 'q' at the end of a pass: break, then release_key().
ChainQuit ==
    /\ fc.pc = "loop"
    /\ fc.names_defined
    /\ fc' = [release_key(fc) EXCEPT !.pc = "exited"]
    /\ UNCHANGED <<dispatchVars, engineVars, faceVars, handVars, stale_at_start, deviceVars,
                   voice_obs, geo, gui>>

NextChain == ChainLoop \/ ChainQuit

SpecChain == InitChain /\ [][NextChain]_vars

\* C31: a key is never held for as long as no face is detected: once the
\* frames without a face in a row are as many as a counter can need to decay
\* to 0 (MaxChainCounter), no key is down.
C31_KeyReleasedWithoutFace ==
    (fc.pc = "loop" /\ fc.noface_frames >= MaxChainCounter) => fc.keyboard.down = {}

\* The keys a branch of the chain is meant to hold.
KeysOfBranch(b) ==
    CASE b = "tilt_left" -> {"a"}
      [] b = "tilt_right" -> {"d"}
      [] b = "left_eye" -> {"shift", "a"}
      [] b = "right_eye" -> {"shift", "d"}
      [] b = "brows" -> {"j"}
      [] b = "both_eyes" -> {"k"}
      [] b = "mouth" -> {"space"}
      [] OTHER -> {}

\* C33: after every frame with a face the keys that are down are exactly the
\* keys of the branch the chain took; shift is not down under a head-tilt
\* branch.
C33_KeysOfSelectedBranch ==
    (fc.pc = "loop" /\ fc.face) => fc.keyboard.down = KeysOfBranch(fc.branch)

----------------------------------------------------------------------------
(***************************************************************************)
(* SpecConfig: the main window (AppGUI), its ConfigManager, config.json    *)
(* and the configuration dialog, next to an Engine that has a ConfigManager*)
(* of its own (main.py). The calls of the engine run to their return, as   *)
(* the GUI thread sees them; the main loop may end by itself in between.   *)
(***************************************************************************)
MaxConfigBindings == 3   \* the dialog's list is followed up to this length

\* config.json as the application finds it: with or without a "bindings" key.
ConfigFiles ==
    {[has_key |-> FALSE, bindings |-> <<>>]}
        \cup {[has_key |-> TRUE, bindings |-> bs] : bs \in {ConfigEmpty, ConfigVoiceOnly, ConfigHandOnly}}

\* What the inputs of the dialog can hold when Add Binding is pressed: type,
\* event and action.
DialogInputs == {<<"voice", "Go", "PRESS_A">>, <<"hand", "FIST", "PRESS_J_DOWN">>}

\* AppGUI.__init__ with a ConfigManager that has read the file: the Stop button
\* disabled, no dialog. manager is config_data["bindings"] of that
\* ConfigManager (has_key: the key is there), file the list in config.json.
\* While a dialog is open, aliased says that its current_bindings is the very
\* list object of the ConfigManager, and current is its list when it is not.
\* at_open, file_at_open and last_close note what get_bindings() and the file
\* held when the dialog was opened and how it was closed.
AppGUI(f) ==
    [has_key |-> f.has_key,
     manager |-> f.bindings,
     file |-> f.bindings,
     dialog |-> "closed",
     aliased |-> FALSE,
     current |-> <<>>,
     start_button |-> "normal",
     stop_button |-> "disabled",
     config_button |-> "normal",
     at_open |-> <<>>,
     file_at_open |-> <<>>,
     last_close |-> "none"]

\* ConfigManager.get_bindings(): config_data.get("bindings", []), the list
\* object itself when the key is there, a new empty list otherwise.
get_bindings(g) == IF g.has_key THEN g.manager ELSE <<>>

\* ConfigDialog.current_bindings
current_bindings(g) == IF g.aliased THEN g.manager ELSE g.current

\* An in-place change of current_bindings (append, pop): it changes the list
\* of the ConfigManager when that is the same object.
Mutated(g, list) ==
    IF g.aliased THEN [g EXCEPT !.manager = list] ELSE [g EXCEPT !.current = list]

\* ConfigDialog._load_bindings(): current_bindings = get_bindings().
LoadBindings(g) == [g EXCEPT !.aliased = g.has_key, !.current = <<>>]

\* The dict _add_binding builds from the inputs.
new_binding(in) ==
    [trigger_type |-> in[1], trigger_event |-> Lower(in[2]), action_id |-> in[3]]

\* The list without the items at the selected indices.
WithoutSelected(list, sel) ==
    LET keep == {i \in 1..Len(list) : i \notin sel}
        RECURSIVE From(_)
        From(i) == IF i > Len(list) THEN <<>>
                   ELSE IF i \in keep THEN <<list[i]>> \o From(i + 1) ELSE From(i + 1)
    IN From(1)

\* AppGUI._reset_buttons()
ResetButtons(g) ==
    [g EXCEPT !.start_button = "normal", !.stop_button = "disabled", !.config_button = "normal"]

\* ConfigManager.set_bindings(current_bindings): the list becomes
\* config_data["bindings"]; the file is written or the write fails.
set_bindings(g, written) ==
    [g EXCEPT !.manager = current_bindings(g),
              !.has_key = TRUE,
              !.aliased = TRUE,
              !.current = <<>>,
              !.file = IF written THEN current_bindings(g) ELSE @]

\* What a step of this specification leaves alone.
besideConfig ==
    <<os_calls, ran, last_ev, sustained, config_bindings, det_on, threads, main_loop_thread,
      guiPc, guiCall, faceVars, handVars, stale_at_start, deviceVars, voice_obs, fc, geo>>

InitConfig ==
    /\ \E f \in ConfigFiles : EngineConstructed(f.bindings) /\ gui = AppGUI(f)
    /\ os_calls = NoCalls
    /\ ran = <<>>
    /\ last_ev = NoEvent
    /\ sustained = {}
    /\ fd = None
    /\ watch = None
    /\ seen_true = 0
    /\ run = 0
    /\ run_from_stable = FALSE
    /\ face_events = <<>>
    /\ blink_obs = None
    /\ noface_run = 0
    /\ last_edge = None
    /\ hd = None
    /\ hand_events = <<>>
    /\ hand_obs = NoHandSeen
    /\ stale_at_start = NotStale
    /\ vd = None
    /\ dev = None
    /\ voice_obs = None
    /\ fc = None
    /\ geo = None

\* AppGUI.start_engine, pressed on the Start button.
PressStart ==
    /\ gui.dialog = "closed" /\ gui.start_button = "normal"
    /\ IF is_running
       THEN UNCHANGED <<is_running, gui>>
       ELSE /\ is_running' = TRUE
            /\ gui' = [gui EXCEPT !.start_button = "disabled", !.stop_button = "normal",
                                  !.config_button = "disabled"]
    /\ UNCHANGED <<bindings, detectors, besideConfig>>

\* AppGUI.stop_engine, pressed on the Stop button.
PressStop ==
    /\ gui.dialog = "closed" /\ gui.stop_button = "normal"
    /\ IF is_running
       THEN /\ is_running' = FALSE
            /\ gui' = ResetButtons(gui)
       ELSE UNCHANGED <<is_running, gui>>
    /\ UNCHANGED <<bindings, detectors, besideConfig>>

\* The main loop thread ends by itself ('q', an exception, no camera) and
\* clears is_running; the window is not told.
MainLoopGone ==
    /\ is_running /\ detectors \cap VisualTypes # {}
    /\ is_running' = FALSE
    /\ UNCHANGED <<bindings, detectors, gui, besideConfig>>

\* AppGUI.open_configuration, pressed on the Configure button: the dialog is
\* created (modal) and loads the bindings.
PressConfigure ==
    /\ gui.dialog = "closed" /\ gui.config_button = "normal"
    /\ gui' = [LoadBindings(gui) EXCEPT !.dialog = "open",
                                        !.at_open = get_bindings(gui),
                                        !.file_at_open = gui.file,
                                        !.last_close = "none"]
    /\ UNCHANGED <<bindings, is_running, detectors, besideConfig>>

\* ConfigDialog._add_binding
AddBinding(in) ==
    /\ gui.dialog = "open"
    /\ Len(current_bindings(gui)) < MaxConfigBindings
    /\ gui' = Mutated(gui, Append(current_bindings(gui), new_binding(in)))
    /\ UNCHANGED <<bindings, is_running, detectors, besideConfig>>

\* ConfigDialog._delete_selected_binding, confirmed, for the selection sel: the
\* items are popped, then _load_bindings() fills the tree again.
DeleteSelected(sel) ==
    /\ gui.dialog = "open"
    /\ sel # {} /\ sel \subseteq 1..Len(current_bindings(gui))
    /\ gui' = LoadBindings(Mutated(gui, WithoutSelected(current_bindings(gui), sel)))
    /\ UNCHANGED <<bindings, is_running, detectors, besideConfig>>

\* Engine.reload_configuration() run to its return: stop(), then
\* _load_configuration() and _initialize_detectors() from the engine's own
\* ConfigManager, then start().
ReloadConfiguration ==
    /\ bindings' = config_bindings
    /\ detectors' = DetectorsNeeded(config_bindings)
    /\ is_running' = TRUE

\* ConfigDialog._save_and_close with a successful set_bindings: the engine
\* reloads, the dialog closes. The dialog the main window was written for
\* (it is handed signal_config_saved) calls that function on the way.
SaveAndClose(signalled) ==
    /\ gui.dialog = "open"
    /\ ReloadConfiguration
    /\ gui' = LET saved == [set_bindings(gui, TRUE) EXCEPT !.dialog = "closed",
                                                          !.aliased = FALSE,
                                                          !.last_close = "saved"]
              IN IF signalled THEN ResetButtons(saved) ELSE saved
    /\ UNCHANGED besideConfig

\* ConfigDialog._save_and_close when the file cannot be written: an error
\* box, the dialog stays open.
SaveFails ==
    /\ gui.dialog = "open"
    /\ gui' = set_bindings(gui, FALSE)
    /\ UNCHANGED <<bindings, is_running, detectors, besideConfig>>

\* ConfigDialog._cancel
Cancel ==
    /\ gui.dialog = "open"
    /\ gui' = [gui EXCEPT !.dialog = "closed", !.aliased = FALSE, !.current = <<>>,
                          !.last_close = "cancelled"]
    /\ UNCHANGED <<bindings, is_running, detectors, besideConfig>>

NextConfig ==
    \/ PressStart \/ PressStop \/ MainLoopGone \/ PressConfigure
    \/ \E in \in DialogInputs : AddBinding(in)
    \/ \E sel \in SUBSET (1..MaxConfigBindings) : DeleteSelected(sel)
    \/ \E signalled \in BOOLEAN : SaveAndClose(signalled)
    \/ SaveFails
    \/ Cancel

SpecConfig == InitConfig /\ [][NextConfig]_vars

\* C36 (as claimed): once the dialog has saved the bindings and
\* reload_configuration() has returned, the engine's binding table is the
\* list that was saved, the list now in config.json.
C36_EngineUsesSavedBindings ==
    gui.last_close = "saved" => bindings = gui.file

\* C37 (as claimed): after Cancel the configuration is what it was when the
\* dialog was opened: get_bindings() returns the same list, which is also what
\* a later save writes if nothing is edited, and the file is untouched.
C37_CancelLeavesConfiguration ==
    gui.last_close = "cancelled" =>
        /\ get_bindings(gui) = gui.at_open
        /\ gui.file = gui.file_at_open

\* C38 (as claimed): whenever the engine is running the Stop button is enabled
\* and the Configure button is disabled.
C38_ButtonsTrackEngine ==
    is_running => (gui.stop_button = "normal" /\ gui.config_button = "disabled")
====
